---- MODULE Spec2Model ----
(***************************************************************************)
(* Model of the parallel chunked segment downloader of video-tools-cli     *)
(* (core/downloader.py) and of the concat operation of the ffmpeg handler  *)
(* (core/ffmpeg_handler.py).                                               *)
(*                                                                         *)
(* One process (one pid) runs the program: the main thread calls           *)
(* batch_download_segments or join_videos; download_segment_parallel       *)
(* dispatches its chunk fetches to a thread pool.  The engine (ffmpeg) is  *)
(* the environment: every invocation ends with one of EngineOutcomes.      *)
(***************************************************************************)
EXTENDS Integers, Sequences, FiniteSets, TLC

\* ------------------------------------------------------------------ bounds

\* largest configured parallelism of a single job (specification Spec)
MaxWorkers == 4
\* longest batch (specification SpecBatch)
MaxSegs == 2
\* largest configured parallelism inside a batch (specification SpecBatch)
MaxBatchWorkers == 2
\* longest input list of join_videos
MaxJoin == 2
\* chunk planner (specification SpecPlan): latest start, in seconds
MaxPlanStart == 3
\* chunk planner: longest range, in seconds beyond the threshold
MaxPlanExtra == 10
\* chunk planner: largest number of chunks
MaxPlanWorkers == 4
\* fair runs (specification SpecLive): largest configured parallelism
MaxLiveWorkers == 2
\* fair runs: longest batch
MaxLiveSegs == 2
\* local split-and-join flow (specification SpecLocal): largest pool
MaxQueue == 2
\* TDL handler (specification SpecTdl): serve processes launched in a run
MaxLaunches == 3
\* TDL handler: Telegram links
MaxUrls == 2
\* settings menu (specification SpecSettings): largest small number entered
MaxEntered == 2

\* ------------------------------------------------------- program constants

\* downloader.py:157  "if total_duration < 30 or self.max_workers <= 1"
MIN_PARALLEL_DURATION == 30

\* main.py:134  "if val.isdigit() and 1 <= int(val) <= 64"
MAX_CONNECTIONS == 64

\* main.py:125  "if val.isdigit() and 1 <= int(val) <= 16"
MAX_QUEUE_LIMIT == 16

\* ------------------------------------------------------------------- state

VARIABLES
    max_workers,    \* Downloader.max_workers
    segments,       \* batch_download_segments: list of <<start, end, output>>
    bpc,            \* position of the main thread
    bi,             \* batch loop index (1-based) of the segment being processed
    results,        \* batch_download_segments: results
    job,            \* per segment: locals of its download_segment_parallel
    calls,          \* per segment: how often each collaborator was invoked
    fs_dir,         \* CACHE_DIR/chunks_<pid> exists
    fs_chunks,      \* chunk files present in CACHE_DIR/chunks_<pid>
    fs_list,        \* CACHE_DIR/concat_list_<pid>.txt exists
    list_lines,     \* content last written to a concat manifest, in order
    fs_out,         \* final output files produced
    join_inputs,    \* argument of join_videos
    join_ok,        \* join_videos: result of _run_ffmpeg
    join_lines,     \* content last written to join_list.txt, in order
    fs_join_list,   \* join_list.txt exists
    download_max_connection,    \* VideoCLI.download_max_connection
    max_queue,      \* VideoCLI.max_queue
    tdl,            \* the TDLHandler and the serve processes it launched
    flow,           \* the flow that resolves a Telegram link, its position
    call,           \* the last call of a handler function, with its result
    split           \* local split-and-join flow: its futures and results

\* the state outside the downloader and join_videos
ext == <<download_max_connection, max_queue, tdl, flow, call, split>>

vars == <<max_workers, segments, bpc, bi, results, job, calls, fs_dir,
          fs_chunks, fs_list, list_lines, fs_out, join_inputs, join_ok,
          join_lines, fs_join_list, ext>>

\* ------------------------------------------------------------- environment

\* How one engine subprocess invocation can end: exit code 0, a non-zero exit
\* code, subprocess.run raising a SubprocessError, or raising another error
\* (OSError when the binary is missing).
EngineOutcomes == {"exit0", "nonzero", "suberr", "oserr"}

\* ---------------------------------------------------------- pure functions

\* downloader.py:153
TotalDuration(seg) == seg[2] - seg[1]

SingleDownloadInclusive(total_duration, workers) ==
    total_duration <= MIN_PARALLEL_DURATION \/ workers <= 1

\* downloader.py:157, the condition of the single-download branch
SingleDownload(total_duration, workers) ==
    total_duration < MIN_PARALLEL_DURATION \/ workers <= 1

ChunkFileUnnumbered(i) == <<"chunks_pid", 0>>

\* downloader.py:177, chunk_file = temp_dir / f"chunk_{i:03d}.mp4"
ChunkFile(i) == <<"chunks_pid", i>>

\* downloader.py:43, temp_dir = CACHE_DIR / f"chunks_{os.getpid()}"; the one
\* process of the model has the one pid
TempDir == <<"CACHE_DIR", "chunks_pid">>

\* downloader.py:112, list_file = CACHE_DIR / f"concat_list_{os.getpid()}.txt"
ListFile == <<"CACHE_DIR", "concat_list_pid.txt">>

\* Python floats are IEEE 754 binary64.  A float x with x = 0 or
\* 2^-7 <= x < 2^12 is a multiple of 2^-60 and is held exactly as four limbs
\* <<a3, a2, a1, a0>>, each below 2^20 but a3:
\*     x = a3 + a2 / 2^20 + a1 / 2^40 + a0 / 2^60
LimbBase == 2^20

\* float(n) of a whole number of seconds (helpers.py:13-14)
FromInt(n) == <<n, 0, 0, 0>>

\* limbs that grew beyond LimbBase, with their carries moved up
Normalize(x) ==
    LET a0 == x[4]
        a1 == x[3] + (a0 \div LimbBase)
        a2 == x[2] + (a1 \div LimbBase)
        a3 == x[1] + (a2 \div LimbBase)
    IN  <<a3, a2 % LimbBase, a1 % LimbBase, a0 % LimbBase>>

RECURSIVE Log2(_)
Log2(n) == IF n <= 1 THEN 0 ELSE 1 + Log2(n \div 2)

\* the k with 2^k <= x < 2^(k+1), x # 0
Exponent(x) == IF x[1] >= 1 THEN Log2(x[1]) ELSE Log2(x[2]) - 20

\* round-to-nearest, ties-to-even, to the 53 significant bits of a binary64:
\* x holds the exact result cut off below 2^-60 and sticky says that
\* something non-zero was cut off.  One unit in the last place of the result
\* is 2^(k-52), that is 2^(k+8) in a0.
RoundDouble(x, sticky) ==
    IF x = <<0, 0, 0, 0>> THEN x
    ELSE LET unit == 2^(Exponent(x) + 8)
             rest == x[4] % unit
             half == unit \div 2
             odd  == (x[4] \div unit) % 2 = 1
             up   == rest > half \/ (rest = half /\ (sticky \/ odd))
         IN  Normalize(<<x[1], x[2], x[3],
                         x[4] - rest + (IF up THEN unit ELSE 0)>>)

\* a / b of two whole numbers as a float (true division, correctly rounded)
DivInt(a, b) ==
    LET r3 == a % b
        r2 == (r3 * LimbBase) % b
        r1 == (r2 * LimbBase) % b
        r0 == (r1 * LimbBase) % b
    IN  RoundDouble(<<a \div b, (r3 * LimbBase) \div b,
                      (r2 * LimbBase) \div b, (r1 * LimbBase) \div b>>,
                    r0 # 0)

\* i * x of a small whole number and a float
MulInt(i, x) ==
    RoundDouble(Normalize(<<i * x[1], i * x[2], i * x[3], i * x[4]>>), FALSE)

\* x + y of two floats
AddDouble(x, y) ==
    RoundDouble(Normalize(<<x[1] + y[1], x[2] + y[2], x[3] + y[3],
                            x[4] + y[4]>>), FALSE)

\* downloader.py:167, chunk_duration = total_duration / self.max_workers
ChunkDuration(total_duration, workers) == DivInt(total_duration, workers)

ChunkStartNoOffset(start_time, i, chunk_duration) == MulInt(i, chunk_duration)

\* downloader.py:176, chunk_start = start_time + (i * chunk_duration)
ChunkStart(start_time, i, chunk_duration) ==
    AddDouble(FromInt(start_time), MulInt(i, chunk_duration))

\* downloader.py:174-178, chunks: (chunk_start, chunk_duration, chunk_file)
PlanChunks(start_time, total_duration, workers) ==
    [k \in 1..workers |->
        <<ChunkStart(start_time, k - 1,
                     ChunkDuration(total_duration, workers)),
          ChunkDuration(total_duration, workers),
          ChunkFile(k - 1)>>]

DownloadChunkResultRetrying(engine) ==
    CASE engine = "exit0"   -> "ok"
      [] engine = "nonzero" -> "pending"
      [] engine = "suberr"  -> "fail"
      [] OTHER              -> "raised"

\* downloader.py:81-108, _download_chunk: what the worker's future holds
DownloadChunkResult(engine) ==
    CASE engine = "exit0"   -> "ok"
      [] engine = "nonzero" -> "fail"
      [] engine = "suberr"  -> "fail"
      [] OTHER              -> "raised"

\* ffmpeg_handler.py:33-76 and 207-227, download_segment: _run_ffmpeg turns
\* every failure into (False, msg), download_segment into a RuntimeError
HandlerDownloadRaises(engine) == engine # "exit0"

MergeResultIgnored(engine) == TRUE

\* downloader.py:130-144, the value _merge_chunks returns
MergeResult(engine) == engine = "exit0"

\* insertion of one (idx, file) pair into a list sorted by idx, after every
\* pair with an equal idx (list.sort is stable)
RECURSIVE InsertByIndex(_, _)
InsertByIndex(sorted, x) ==
    IF sorted = <<>> THEN <<x>>
    ELSE IF x[1] < Head(sorted)[1] THEN <<x>> \o sorted
    ELSE <<Head(sorted)>> \o InsertByIndex(Tail(sorted), x)

RECURSIVE SortFrom(_, _)
SortFrom(acc, rest) ==
    IF rest = <<>> THEN acc
    ELSE SortFrom(InsertByIndex(acc, Head(rest)), Tail(rest))

SortByIndexUnsorted(chunk_files) == chunk_files

\* downloader.py:210, chunk_files.sort(key=lambda x: x[0])
SortByIndex(chunk_files) == SortFrom(<<>>, chunk_files)

\* downloader.py:211, ordered_files = [f for _, f in chunk_files]
Files(chunk_files) == [k \in 1..Len(chunk_files) |-> chunk_files[k][2]]

NotAllDownloadedEmpty(success, chunk_files, workers) == Len(chunk_files) = 0

NotAllDownloadedAlways(success, chunk_files, workers) == TRUE

NotAllDownloadedNever(success, chunk_files, workers) == FALSE

\* downloader.py:205, the condition of the failure branch
NotAllDownloaded(success, chunk_files, workers) ==
    ~success \/ Len(chunk_files) # workers

\* -------------------------------------------------------------------- init

Segs == 1..Len(segments)

\* the value a call returns, "none" while it has not set one
Returns(b) == IF b THEN "True" ELSE "False"

\* locals of a download_segment_parallel frame that is not active; completion
\* records the order in which as_completed yielded the futures
IdleJob == [pc |-> "idle", chunks |-> <<>>, fut |-> <<>>, yielded |-> {},
            completion |-> <<>>, chunk_files |-> <<>>, success |-> TRUE,
            ordered_files |-> <<>>, merged |-> FALSE, ret |-> "none",
            exc |-> FALSE, temp_dir |-> <<>>, list_file |-> <<>>]

NoCalls == [single |-> 0, mkdir |-> 0, plan |-> 0, submit |-> 0,
            fetch |-> 0, merge |-> 0, concat |-> 0]

\* tdl_handler.py:14-15, self.process = None and self._current_url = None; a
\* launched serve process is named by a positive number, a link too
NoProcess == 0

NoUrl == 0

\* tdl_handler.py:11-15, the handler after __init__; live is the set of serve
\* processes of the operating system that were launched and have not ended,
\* orphans those of them whose stopping failed, launched the count of
\* launches, last the method that ran last
NoTdl == [process |-> NoProcess, current_url |-> NoUrl, live |-> {},
          orphans |-> {}, launched |-> 0, last |-> "init"]

\* no flow that resolves a Telegram link is active
NoFlow == [name |-> "none", pc |-> "idle", is_tdl |-> FALSE, out |-> "none"]

\* no handler function has been called
NoCall == [op |-> "none", arg |-> <<>>, runs |-> 0, ret |-> <<>>]

\* main.py:342-346, no split worker submitted, results = []
NoSplit == [fut |-> <<>>, yielded |-> {}, results |-> <<>>]

\* main.py:61, the default of MAX_QUEUE
DefaultMaxQueue == 2

\* main.py:60-68, VideoCLI.__init__: the downloader is constructed with
\* max_workers = self.download_max_connection
InitExt ==
    /\ download_max_connection = max_workers
    /\ max_queue = DefaultMaxQueue
    /\ tdl = NoTdl
    /\ flow = NoFlow
    /\ call = NoCall
    /\ split = NoSplit

\* (start, end) of the requested ranges: below, at and above the threshold
Ranges == {<<0, 29>>, <<0, 30>>, <<5, 36>>}

SegmentLists(n) ==
    UNION {[1..k -> {<<r[1], r[2], "out">> : r \in Ranges}] : k \in 1..n}

\* every segment of a list gets its own output name
Named(list) == [k \in 1..Len(list) |-> <<list[k][1], list[k][2], k>>]

InitWith(workerSet, lists) ==
    /\ max_workers \in workerSet
    /\ segments \in {Named(l) : l \in lists}
    /\ bpc = "menu"
    /\ bi = 1
    /\ results = <<>>
    /\ job = [s \in Segs |-> IdleJob]
    /\ calls = [s \in Segs |-> NoCalls]
    /\ fs_dir = FALSE
    /\ fs_chunks = {}
    /\ fs_list = FALSE
    /\ list_lines = <<>>
    /\ fs_out = {}
    /\ join_inputs = <<>>
    /\ join_ok = FALSE
    /\ join_lines = <<>>
    /\ fs_join_list = FALSE
    /\ InitExt

\* one segment, parallelism -1..MaxWorkers
Init == InitWith((0 - 1)..MaxWorkers, SegmentLists(1))

\* a batch of up to MaxSegs segments, parallelism 0..MaxBatchWorkers
InitBatch == InitWith(0..MaxBatchWorkers, SegmentLists(MaxSegs))

\* the chunk planner (downloader.py:166-178) applied to whole-second ranges
\* of 30 s and more and to 1..MaxPlanWorkers chunks: the call is at the
\* planning loop, its temp directory created
InitPlan ==
    /\ max_workers \in 1..MaxPlanWorkers
    /\ segments \in {<<<<a, a + MIN_PARALLEL_DURATION + x, 1>>>> :
                        a \in 0..MaxPlanStart, x \in 0..MaxPlanExtra}
    /\ bpc = "call"
    /\ bi = 1
    /\ results = <<>>
    /\ job = [s \in Segs |-> [IdleJob EXCEPT !.pc = "plan",
                                            !.temp_dir = TempDir]]
    /\ calls = [s \in Segs |-> [NoCalls EXCEPT !.mkdir = 1]]
    /\ fs_dir = TRUE
    /\ fs_chunks = {}
    /\ fs_list = FALSE
    /\ list_lines = <<>>
    /\ fs_out = {}
    /\ join_inputs = <<>>
    /\ join_ok = FALSE
    /\ join_lines = <<>>
    /\ fs_join_list = FALSE
    /\ InitExt

\* ------------------------------------------------- download_segment_parallel

SetJob(s, r) == job' = [job EXCEPT ![s] = r]
Count(s, what) == calls' = [calls EXCEPT ![s][what] = @ + 1]
Output(s) == segments[s][3]

Finished == {"ok", "fail", "raised"}
Indices(s) == 0..(Len(job[s].chunks) - 1)
Submitted(s) == DOMAIN job[s].fut
Running(s) == {i \in Submitted(s) : job[s].fut[i] = "running"}

\* downloader.py:153-157, the choice between the single and the chunked path
Entry(s) ==
    /\ job[s].pc = "entry"
    /\ SetJob(s, [job[s] EXCEPT !.pc =
            IF SingleDownload(TotalDuration(segments[s]), max_workers)
            THEN "single" ELSE "mkdir"])
    /\ UNCHANGED ext
    /\ UNCHANGED <<max_workers, segments, bpc, bi, results, calls, fs_dir,
                   fs_chunks, fs_list, list_lines, fs_out, join_inputs,
                   join_ok, join_lines, fs_join_list>>

\* downloader.py:158-164, one direct download through the ffmpeg handler
Single(s) ==
    /\ job[s].pc = "single"
    /\ \E e \in EngineOutcomes :
        /\ SetJob(s, [job[s] EXCEPT !.pc = "exit",
                                    !.ret = Returns(~HandlerDownloadRaises(e))])
        /\ fs_out' = IF e = "exit0" THEN fs_out \cup {Output(s)} ELSE fs_out
    /\ Count(s, "single")
    /\ UNCHANGED ext
    /\ UNCHANGED <<max_workers, segments, bpc, bi, results, fs_dir,
                   fs_chunks, fs_list, list_lines, join_inputs,
                   join_ok, join_lines, fs_join_list>>

\* downloader.py:41-45 and 167-170, _get_temp_dir
GetTempDir(s) ==
    /\ job[s].pc = "mkdir"
    /\ fs_dir' = TRUE
    /\ SetJob(s, [job[s] EXCEPT !.pc = "plan", !.temp_dir = TempDir])
    /\ Count(s, "mkdir")
    /\ UNCHANGED ext
    /\ UNCHANGED <<max_workers, segments, bpc, bi, results,
                   fs_chunks, fs_list, list_lines, fs_out, join_inputs,
                   join_ok, join_lines, fs_join_list>>

SelfMaxWorkersPlusOne == max_workers + 1

\* self.max_workers as read for the chunk tasks (downloader.py:175,
\* range(self.max_workers)) and for the pool (downloader.py:186,
\* ThreadPoolExecutor(max_workers=self.max_workers))
SelfMaxWorkers == max_workers

\* downloader.py:174-184, the chunk tasks and the empty result list
Plan(s) ==
    /\ job[s].pc = "plan"
    /\ SetJob(s, [job[s] EXCEPT !.pc = "submit",
                                !.chunks = PlanChunks(segments[s][1],
                                              TotalDuration(segments[s]),
                                              SelfMaxWorkers),
                                !.chunk_files = <<>>,
                                !.success = TRUE])
    /\ Count(s, "plan")
    /\ UNCHANGED ext
    /\ UNCHANGED <<max_workers, segments, bpc, bi, results, fs_dir,
                   fs_chunks, fs_list, list_lines, fs_out, join_inputs,
                   join_ok, join_lines, fs_join_list>>

\* downloader.py:188-190, one iteration of the submit loop
Submit(s) ==
    /\ job[s].pc = "submit"
    /\ LET i == Cardinality(Submitted(s))
           fut == [j \in 0..i |-> IF j = i THEN "pending" ELSE job[s].fut[j]]
       IN  SetJob(s, [job[s] EXCEPT !.fut = fut,
                       !.pc = IF i + 1 = Len(job[s].chunks)
                              THEN "collect" ELSE "submit"])
    /\ Count(s, "submit")
    /\ UNCHANGED ext
    /\ UNCHANGED <<max_workers, segments, bpc, bi, results, fs_dir,
                   fs_chunks, fs_list, list_lines, fs_out, join_inputs,
                   join_ok, join_lines, fs_join_list>>

\* downloader.py:186, a pool thread (at most max_workers of them) takes a
\* queued task and starts _download_chunk (downloader.py:81-100)
WorkerStart(s) ==
    /\ \E i \in Submitted(s) :
        /\ job[s].fut[i] = "pending"
        /\ Cardinality(Running(s)) < SelfMaxWorkers
        /\ SetJob(s, [job[s] EXCEPT !.fut[i] = "running"])
    /\ Count(s, "fetch")
    /\ UNCHANGED ext
    /\ UNCHANGED <<max_workers, segments, bpc, bi, results, fs_dir,
                   fs_chunks, fs_list, list_lines, fs_out, join_inputs,
                   join_ok, join_lines, fs_join_list>>

\* downloader.py:94-108, the engine ends and _download_chunk returns or
\* raises; the engine cannot end with exit code 0 when the directory of its
\* output file does not exist
WorkerFinish(s) ==
    /\ \E i \in Submitted(s), e \in EngineOutcomes :
        /\ job[s].fut[i] = "running"
        /\ e = "exit0" => fs_dir
        /\ SetJob(s, [job[s] EXCEPT !.fut[i] = DownloadChunkResult(e)])
        /\ fs_chunks' = IF e = "exit0"
                        THEN fs_chunks \cup {job[s].chunks[i + 1][3]}
                        ELSE fs_chunks
    /\ UNCHANGED ext
    /\ UNCHANGED <<max_workers, segments, bpc, bi, results, calls, fs_dir,
                   fs_list, list_lines, fs_out, join_inputs,
                   join_ok, join_lines, fs_join_list>>

HandlerCatchesNothing(res) == FALSE

\* downloader.py:201, "except Exception" around future.result(): whether the
\* handler catches what a future holding res re-raises
HandlerCatches(res) == res = "raised"

\* downloader.py:192-203, as_completed yields one finished future
Collect(s) ==
    /\ job[s].pc = "collect"
    /\ \E i \in Submitted(s) \ job[s].yielded :
        /\ job[s].fut[i] \in Finished
        /\ LET res     == job[s].fut[i]
               escapes == res = "raised" /\ ~HandlerCatches(res)
           IN  SetJob(s, [job[s] EXCEPT
                 !.yielded = @ \cup {i},
                 !.completion = Append(@, i),
                 !.chunk_files = IF res = "ok"
                                 THEN Append(@, <<i, job[s].chunks[i + 1][3]>>)
                                 ELSE @,
                 !.success = IF res = "ok" \/ escapes THEN @ ELSE FALSE,
                 !.exc = escapes,
                 !.pc = IF escapes THEN "exit_with" ELSE @])
    /\ UNCHANGED ext
    /\ UNCHANGED <<max_workers, segments, bpc, bi, results, calls, fs_dir,
                   fs_chunks, fs_list, list_lines, fs_out, join_inputs,
                   join_ok, join_lines, fs_join_list>>

AsCompletedStopsOnFailure(s) ==
    job[s].yielded = Submitted(s) \/ ~job[s].success

\* downloader.py:192, as_completed(futures) has yielded every future: the loop
\* body has no break and no return
AsCompletedExhausted(s) == job[s].yielded = Submitted(s)

\* downloader.py:192, as_completed is exhausted
CollectEnd(s) ==
    /\ job[s].pc = "collect"
    /\ AsCompletedExhausted(s)
    /\ SetJob(s, [job[s] EXCEPT !.pc = "exit_with"])
    /\ UNCHANGED ext
    /\ UNCHANGED <<max_workers, segments, bpc, bi, results, calls, fs_dir,
                   fs_chunks, fs_list, list_lines, fs_out, join_inputs,
                   join_ok, join_lines, fs_join_list>>

PoolNotAwaited(s) == TRUE

\* downloader.py:186, ThreadPoolExecutor.__exit__ is shutdown(wait=True): it
\* returns when every submitted task has finished
PoolDrained(s) == \A i \in Submitted(s) : job[s].fut[i] \in Finished

\* downloader.py:186, leaving the with block
ExitWith(s) ==
    /\ job[s].pc = "exit_with"
    /\ PoolDrained(s)
    /\ SetJob(s, [job[s] EXCEPT !.pc = IF job[s].exc THEN "finally"
                                       ELSE "decide"])
    /\ UNCHANGED ext
    /\ UNCHANGED <<max_workers, segments, bpc, bi, results, calls, fs_dir,
                   fs_chunks, fs_list, list_lines, fs_out, join_inputs,
                   join_ok, join_lines, fs_join_list>>

\* downloader.py:205-207
Decide(s) ==
    /\ job[s].pc = "decide"
    /\ SetJob(s, IF NotAllDownloaded(job[s].success, job[s].chunk_files,
                                     max_workers)
                 THEN [job[s] EXCEPT !.pc = "finally", !.ret = "False"]
                 ELSE [job[s] EXCEPT !.pc = "sort"])
    /\ UNCHANGED ext
    /\ UNCHANGED <<max_workers, segments, bpc, bi, results, calls, fs_dir,
                   fs_chunks, fs_list, list_lines, fs_out, join_inputs,
                   join_ok, join_lines, fs_join_list>>

\* downloader.py:209-211
Sort(s) ==
    /\ job[s].pc = "sort"
    /\ LET sorted == SortByIndex(job[s].chunk_files)
       IN  SetJob(s, [job[s] EXCEPT !.pc = "merge_open",
                                    !.chunk_files = sorted,
                                    !.ordered_files = Files(sorted)])
    /\ UNCHANGED ext
    /\ UNCHANGED <<max_workers, segments, bpc, bi, results, calls, fs_dir,
                   fs_chunks, fs_list, list_lines, fs_out, join_inputs,
                   join_ok, join_lines, fs_join_list>>

\* --------------------------------------------------------------- _merge_chunks

\* downloader.py:37-39 and 116, ffmpeg_handler.py:238: the resolved absolute
\* path with forward slashes
SafePath(path) == <<"resolved", path>>

ManifestLinesReversed(paths) ==
    [k \in 1..Len(paths) |-> <<"file", SafePath(paths[Len(paths) + 1 - k])>>]

\* downloader.py:115-117 / ffmpeg_handler.py:237-239, the loop writes one
\* line "file '<safe_path>'" per path
ManifestLines(paths) == [k \in 1..Len(paths) |-> <<"file", SafePath(paths[k])>>]

UnlinkSkipped(exists) == exists

\* downloader.py:145-147 and ffmpeg_handler.py:258-260, the finally block:
\* whether the manifest exists afterwards
UnlinkIfExists(exists) == IF exists THEN FALSE ELSE exists

\* how writing a manifest can end: written, open() raised (no file), or a
\* write raised (the file exists)
WriteOutcomes == {"written", "open_raised", "write_raised"}

\* downloader.py:112-117, the manifest is opened and written
MergeOpen(s) ==
    /\ job[s].pc = "merge_open"
    /\ \E w \in WriteOutcomes :
        /\ fs_list' = (fs_list \/ w # "open_raised")
        /\ list_lines' = IF w = "written"
                         THEN ManifestLines(job[s].ordered_files)
                         ELSE list_lines
        /\ SetJob(s, [job[s] EXCEPT !.merged = FALSE,
                        !.list_file = ListFile,
                        !.pc = IF w = "written" THEN "merge_run"
                               ELSE "merge_finally"])
    /\ Count(s, "merge")
    /\ UNCHANGED ext
    /\ UNCHANGED <<max_workers, segments, bpc, bi, results, fs_dir,
                   fs_chunks, fs_out, join_inputs,
                   join_ok, join_lines, fs_join_list>>

\* downloader.py:119-144, the concat invocation and the value to return; the
\* engine cannot end with exit code 0 when the manifest or a file it lists
\* does not exist
MergeRun(s) ==
    /\ job[s].pc = "merge_run"
    /\ \E e \in EngineOutcomes :
        /\ e = "exit0" =>
              /\ fs_list
              /\ \A k \in 1..Len(list_lines) :
                    list_lines[k][2][2] \in fs_chunks
        /\ SetJob(s, [job[s] EXCEPT !.pc = "merge_finally",
                                    !.merged = MergeResult(e)])
        /\ fs_out' = IF e = "exit0" THEN fs_out \cup {Output(s)} ELSE fs_out
    /\ Count(s, "concat")
    /\ UNCHANGED ext
    /\ UNCHANGED <<max_workers, segments, bpc, bi, results, fs_dir,
                   fs_chunks, fs_list, list_lines, join_inputs,
                   join_ok, join_lines, fs_join_list>>

\* downloader.py:145-147, then downloader.py:215-219
MergeFinally(s) ==
    /\ job[s].pc = "merge_finally"
    /\ fs_list' = UnlinkIfExists(fs_list)
    /\ SetJob(s, [job[s] EXCEPT !.pc = "finally",
                                !.ret = Returns(job[s].merged)])
    /\ UNCHANGED ext
    /\ UNCHANGED <<max_workers, segments, bpc, bi, results, calls, fs_dir,
                   fs_chunks, list_lines, fs_out, join_inputs,
                   join_ok, join_lines, fs_join_list>>

RmTreeSkipped(exists) == exists

\* downloader.py:223-224, the finally block of download_segment_parallel:
\* whether the temp directory exists afterwards
RmTree(exists) == IF exists THEN FALSE ELSE exists

\* downloader.py:221-224
Finally(s) ==
    /\ job[s].pc = "finally"
    /\ fs_dir' = RmTree(fs_dir)
    /\ fs_chunks' = IF fs_dir' THEN fs_chunks ELSE {}
    /\ SetJob(s, [job[s] EXCEPT !.pc = "exit"])
    /\ UNCHANGED ext
    /\ UNCHANGED <<max_workers, segments, bpc, bi, results, calls,
                   fs_list, list_lines, fs_out, join_inputs,
                   join_ok, join_lines, fs_join_list>>

\* the call returns its value (or the pending exception) to the caller and
\* its locals are gone
ReturnToCaller(s) ==
    /\ job[s].pc = "exit"
    /\ SetJob(s, [IdleJob EXCEPT !.pc = IF job[s].exc THEN "raised"
                                        ELSE "returned",
                                 !.ret = job[s].ret])
    /\ UNCHANGED ext
    /\ UNCHANGED <<max_workers, segments, bpc, bi, results, calls, fs_dir,
                   fs_chunks, fs_list, list_lines, fs_out, join_inputs,
                   join_ok, join_lines, fs_join_list>>

\* downloader.py:189, executor.submit raises (RuntimeError: the pool cannot
\* start a thread); the exception leaves the with block and the try block
SubmitRaises(s) ==
    /\ job[s].pc = "submit"
    /\ SetJob(s, [job[s] EXCEPT !.pc = "exit_with", !.exc = TRUE])
    /\ UNCHANGED ext
    /\ UNCHANGED <<max_workers, segments, bpc, bi, results, calls, fs_dir,
                   fs_chunks, fs_list, list_lines, fs_out, join_inputs,
                   join_ok, join_lines, fs_join_list>>

\* downloader.py:192-203, an exception leaves the as_completed loop
\* (KeyboardInterrupt while waiting, or log.error raising inside the handler)
CollectRaises(s) ==
    /\ job[s].pc = "collect"
    /\ SetJob(s, [job[s] EXCEPT !.pc = "exit_with", !.exc = TRUE])
    /\ UNCHANGED ext
    /\ UNCHANGED <<max_workers, segments, bpc, bi, results, calls, fs_dir,
                   fs_chunks, fs_list, list_lines, fs_out, join_inputs,
                   join_ok, join_lines, fs_join_list>>

\* downloader.py:149, a thread of the host program calls
\* download_segment_parallel while other calls of the process may be running
ConcurrentCall(s) ==
    /\ bpc = "menu"
    /\ job[s].pc = "idle"
    /\ SetJob(s, [job[s] EXCEPT !.pc = "entry"])
    /\ UNCHANGED ext
    /\ UNCHANGED <<max_workers, segments, bpc, bi, results, calls, fs_dir,
                   fs_chunks, fs_list, list_lines, fs_out, join_inputs,
                   join_ok, join_lines, fs_join_list>>

\* ----------------------------------------------------- batch_download_segments

CallReturnedEarly(s) == job[s].pc # "idle"

\* downloader.py:242, the call is synchronous: the loop goes on when
\* download_segment_parallel has returned
CallReturned(s) == job[s].pc = "returned"

\* main.py:422 and main.py:694, the main thread enters batch_download_segments
BatchStart ==
    /\ bpc = "menu"
    /\ bpc' = "loop"
    /\ UNCHANGED ext
    /\ UNCHANGED <<max_workers, segments, bi, results, job, calls, fs_dir,
                   fs_chunks, fs_list, list_lines, fs_out, join_inputs,
                   join_ok, join_lines, fs_join_list>>

\* downloader.py:240-242, the loop body calls download_segment_parallel
BatchCall ==
    /\ bpc = "loop"
    /\ bi <= Len(segments)
    /\ bpc' = "call"
    /\ SetJob(bi, [job[bi] EXCEPT !.pc = "entry"])
    /\ UNCHANGED ext
    /\ UNCHANGED <<max_workers, segments, bi, results, calls, fs_dir,
                   fs_chunks, fs_list, list_lines, fs_out, join_inputs,
                   join_ok, join_lines, fs_join_list>>

BatchReturnAborting ==
    /\ bpc = "call"
    /\ job[bi].pc = "returned"
    /\ results' = Append(results, <<segments[bi][3], job[bi].ret>>)
    /\ bi' = bi + 1
    /\ bpc' = IF job[bi].ret = "True" THEN "loop" ELSE "done"
    /\ UNCHANGED ext
    /\ UNCHANGED <<max_workers, segments, job, calls, fs_dir,
                   fs_chunks, fs_list, list_lines, fs_out, join_inputs,
                   join_ok, join_lines, fs_join_list>>

\* downloader.py:242-243, success is bound and appended
BatchReturn ==
    /\ bpc = "call"
    /\ CallReturned(bi)
    /\ results' = Append(results, <<Output(bi), job[bi].ret>>)
    /\ bi' = bi + 1
    /\ bpc' = "loop"
    /\ UNCHANGED ext
    /\ UNCHANGED <<max_workers, segments, job, calls, fs_dir,
                   fs_chunks, fs_list, list_lines, fs_out, join_inputs,
                   join_ok, join_lines, fs_join_list>>

\* downloader.py:242, an exception of the call leaves the loop
BatchPropagate ==
    /\ bpc = "call"
    /\ job[bi].pc = "raised"
    /\ bpc' = "raised"
    /\ UNCHANGED ext
    /\ UNCHANGED <<max_workers, segments, bi, results, job, calls, fs_dir,
                   fs_chunks, fs_list, list_lines, fs_out, join_inputs,
                   join_ok, join_lines, fs_join_list>>

\* downloader.py:245
BatchDone ==
    /\ bpc = "loop"
    /\ bi > Len(segments)
    /\ bpc' = "done"
    /\ UNCHANGED ext
    /\ UNCHANGED <<max_workers, segments, bi, results, job, calls, fs_dir,
                   fs_chunks, fs_list, list_lines, fs_out, join_inputs,
                   join_ok, join_lines, fs_join_list>>

\* ------------------------------------------------- FFmpegHandler.join_videos

\* ffmpeg_handler.py:232, list_file = Path("join_list.txt"), a path relative
\* to the current working directory of the process
JoinListFile == <<"cwd", "join_list.txt">>

\* the lists of input paths join_videos is called with
JoinLists == UNION {[1..k -> {"a", "b"}] : k \in 1..MaxJoin}

\* main.py:364, the main thread enters join_videos with a list of paths
JoinStart ==
    /\ bpc = "menu"
    /\ bpc' = "join_open"
    /\ join_inputs' \in JoinLists
    /\ UNCHANGED ext
    /\ UNCHANGED <<max_workers, segments, bi, results, job, calls, fs_dir,
                   fs_chunks, fs_list, list_lines, fs_out,
                   join_ok, join_lines, fs_join_list>>

\* ffmpeg_handler.py:232-239, the manifest is opened and written
JoinOpen ==
    /\ bpc = "join_open"
    /\ \E w \in WriteOutcomes :
        /\ fs_join_list' = (fs_join_list \/ w # "open_raised")
        /\ join_lines' = IF w = "written" THEN ManifestLines(join_inputs)
                         ELSE join_lines
        /\ bpc' = IF w = "written" THEN "join_run" ELSE "join_finally"
    /\ join_ok' = FALSE
    /\ UNCHANGED ext
    /\ UNCHANGED <<max_workers, segments, bi, results, job, calls, fs_dir,
                   fs_chunks, fs_list, list_lines, fs_out, join_inputs>>

\* main.py:363, final_output: the output path join_videos is given, a name
\* that no segment output has (segment outputs are numbered from 1)
FinalOutput == 0

\* ffmpeg_handler.py:241-256, _run_ffmpeg returns (success, error)
JoinRun ==
    /\ bpc = "join_run"
    /\ \E e \in EngineOutcomes :
        /\ join_ok' = (e = "exit0")
        /\ fs_out' = IF e = "exit0" THEN fs_out \cup {FinalOutput} ELSE fs_out
    /\ bpc' = "join_finally"
    /\ UNCHANGED ext
    /\ UNCHANGED <<max_workers, segments, bi, results, job, calls, fs_dir,
                   fs_chunks, fs_list, list_lines, join_inputs,
                   join_lines, fs_join_list>>

\* ffmpeg_handler.py:258-260, then the call returns or its error propagates
JoinFinally ==
    /\ bpc = "join_finally"
    /\ fs_join_list' = UnlinkIfExists(fs_join_list)
    /\ bpc' = IF join_ok THEN "join_returned" ELSE "join_raised"
    /\ UNCHANGED ext
    /\ UNCHANGED <<max_workers, segments, bi, results, job, calls, fs_dir,
                   fs_chunks, fs_list, list_lines, fs_out, join_inputs,
                   join_ok, join_lines>>

\* ------------------------------------------------ smart_download (downloader)

SmartDownloadResultAlways(engine) == "True"

\* downloader.py:63-79, smart_download: what one subprocess.run leads to; an
\* error that is not a SubprocessError leaves the function
SmartDownloadResult(engine) ==
    CASE engine = "exit0"   -> "True"
      [] engine = "nonzero" -> "False"
      [] engine = "suberr"  -> "False"
      [] OTHER              -> "raised"

\* downloader.py:47-79, one call of smart_download from a flow of main.py
\* (main.py:484 and 493): runs counts the invocations of the engine
SmartDownload ==
    /\ bpc = "menu"
    /\ \E e \in EngineOutcomes :
        call' = [op |-> "smart_download", arg |-> <<e>>, runs |-> 1,
                 ret |-> <<SmartDownloadResult(e)>>]
    /\ bpc' = "downloaded"
    /\ UNCHANGED <<download_max_connection, max_queue, tdl, flow, split>>
    /\ UNCHANGED <<max_workers, segments, bi, results, job, calls, fs_dir,
                   fs_chunks, fs_list, list_lines, fs_out, join_inputs,
                   join_ok, join_lines, fs_join_list>>

\* ------------------------------------------- metadata probe (ffmpeg_handler)

\* the largest duration, in whole seconds, a probed container reports
MaxDuration == 3

\* how the one subprocess.run of get_video_info can end; it is called without
\* check and without timeout, so it raises no SubprocessError
ProbeExits == {"exit0", "nonzero", "oserr"}

\* the "duration" entry of the format object: absent, a string that is no
\* number ("N/A"), or the decimal string of a number
Durations ==
    {<<"absent">>, <<"text">>} \cup {<<"number", n>> : n \in 0..MaxDuration}

\* what ffprobe -print_format json writes to its standard output: nothing that
\* parses, or an object with or without streams and with or without a format
\* object, which has a duration entry or not
ProbeStdouts ==
    {<<"garbage">>}
      \cup {<<"json", streams, <<"absent">>>> : streams \in BOOLEAN}
      \cup {<<"json", streams, <<"object", d>>>> :
               streams \in BOOLEAN, d \in Durations}

\* ffmpeg_handler.py:164, json.loads(result.stdout): the parsed object as
\* <<has streams, format>>, or a JSONDecodeError
JsonLoads(stdout) ==
    IF stdout[1] = "json" THEN <<"value", <<stdout[2], stdout[3]>>>>
    ELSE <<"JSONDecodeError">>

GetVideoInfoResultUncaught(exit, stdout) ==
    CASE exit = "nonzero" -> <<"None">>
      [] exit = "exit0" /\ stdout[1] = "json" ->
            <<"info", <<stdout[2], stdout[3]>>>>
      [] OTHER -> <<"raised">>

\* ffmpeg_handler.py:155-173, what get_video_info returns: None for a
\* non-zero exit code and for output that does not parse; an OSError of
\* subprocess.run is not caught
GetVideoInfoResult(exit, stdout) ==
    CASE exit = "oserr"   -> <<"raised">>
      [] exit = "nonzero" -> <<"None">>
      [] OTHER ->
            IF JsonLoads(stdout)[1] = "value"
            THEN <<"info", JsonLoads(stdout)[2]>>
            ELSE <<"None">>

\* ffmpeg_handler.py:178, "if info:": None and the empty object are false
Truthy(info) ==
    /\ info[1] = "info"
    /\ info[2][1] \/ info[2][2] # <<"absent">>

\* ffmpeg_handler.py:177-183, what get_duration makes of get_video_info's
\* result: float(info['format']['duration']), 0.0 after a KeyError or a
\* ValueError and when info is false
GetDurationResult(info) ==
    CASE info[1] = "raised" -> <<"raised">>
      [] ~Truthy(info) -> <<"float", 0>>
      [] info[2][2][1] # "object" -> <<"float", 0>>
      [] info[2][2][2][1] # "number" -> <<"float", 0>>
      [] OTHER -> <<"float", info[2][2][2][2]>>

\* the outputs a probe can end with: standard output is read after exit only
ProbeRuns ==
    {<<x, out>> \in ProbeExits \X ProbeStdouts :
        x = "oserr" => out = <<"garbage">>}

\* ffmpeg_handler.py:143-173, one call of get_video_info
GetVideoInfo ==
    /\ bpc = "menu"
    /\ \E run \in ProbeRuns :
        call' = [op |-> "get_video_info", arg |-> run, runs |-> 1,
                 ret |-> GetVideoInfoResult(run[1], run[2])]
    /\ UNCHANGED <<download_max_connection, max_queue, tdl, flow, split>>
    /\ UNCHANGED <<max_workers, segments, bpc, bi, results, job, calls,
                   fs_dir, fs_chunks, fs_list, list_lines, fs_out,
                   join_inputs, join_ok, join_lines, fs_join_list>>

\* ffmpeg_handler.py:175-183, one call of get_duration
GetDuration ==
    /\ bpc = "menu"
    /\ \E run \in ProbeRuns :
        call' = [op |-> "get_duration", arg |-> run, runs |-> 1,
                 ret |-> GetDurationResult(
                             GetVideoInfoResult(run[1], run[2]))]
    /\ UNCHANGED <<download_max_connection, max_queue, tdl, flow, split>>
    /\ UNCHANGED <<max_workers, segments, bpc, bi, results, job, calls,
                   fs_dir, fs_chunks, fs_list, list_lines, fs_out,
                   join_inputs, join_ok, join_lines, fs_join_list>>

\* ---------------------------------------------- binary resolution (config)

\* config.py:96 and binary_downloader.py:82, the names that can be fetched,
\* and one that cannot
BinaryNames == {"ffmpeg", "ffprobe", "tdl", "other"}

Fetchable == {"ffmpeg", "ffprobe", "tdl"}

\* how a download of the archive and the extraction from it can end
NetOutcomes == {"installed", "failed", "raised"}

\* where a binary is before the call: <<win32, bin/<name>.exe exists,
\* bin/<name> exists, the system search path has it>>
BinaryEnvs == BOOLEAN \X BOOLEAN \X BOOLEAN \X BOOLEAN

\* config.py:87-93, local_bin.exists(): bin/<name>.exe on win32, bin/<name>
\* elsewhere
LocalBinExists(win32, exe, plain) == IF win32 THEN exe ELSE plain

\* binary_downloader.py:80-134, download_binary: <<result, whether a download
\* was started, whether bin/<name>.exe exists afterwards>>
DownloadBinary(name, exe, net) ==
    CASE name \notin Fetchable -> <<"False", FALSE, exe>>
      [] exe                   -> <<"True", FALSE, exe>>
      [] net = "installed"     -> <<"True", TRUE, TRUE>>
      [] net = "failed"        -> <<"False", TRUE, exe>>
      [] OTHER                 -> <<"raised", TRUE, exe>>

\* config.py:78-106, get_binary_path: <<"local" for the path in the bin
\* directory or "bare" for the bare name, which the system search path
\* resolves; whether download_binary was called; whether a download was
\* started>>
GetBinaryPathResult(name, win32, exe, plain, net) ==
    IF LocalBinExists(win32, exe, plain) THEN <<"local", FALSE, FALSE>>
    ELSE IF name \in Fetchable
         THEN LET d == DownloadBinary(name, exe, net)
              IN  IF d[1] = "True" /\ LocalBinExists(win32, d[3], plain)
                  THEN <<"local", TRUE, d[2]>>
                  ELSE <<"bare", TRUE, d[2]>>
         ELSE <<"bare", FALSE, FALSE>>

\* config.py:78-106, one call of get_binary_path (ffmpeg_handler.py:26-27,
\* tdl_handler.py:28)
GetBinaryPath ==
    /\ bpc = "menu"
    /\ \E name \in BinaryNames, env \in BinaryEnvs, net \in NetOutcomes :
        call' = [op |-> "get_binary_path", arg |-> <<name, env, net>>,
                 runs |-> 0,
                 ret |-> GetBinaryPathResult(name, env[1], env[2], env[3],
                                             net)]
    /\ UNCHANGED <<download_max_connection, max_queue, tdl, flow, split>>
    /\ UNCHANGED <<max_workers, segments, bpc, bi, results, job, calls,
                   fs_dir, fs_chunks, fs_list, list_lines, fs_out,
                   join_inputs, join_ok, join_lines, fs_join_list>>

\* ------------------------------------------------------ callers (main.py)

\* what the user or the queue file gives for one segment: <<start, end, given>>,
\* start and end being times in whole seconds, given = FALSE standing for a
\* start or end that is missing or empty
RawRanges == {<<0, 29, TRUE>>, <<0, 30, TRUE>>, <<30, 30, TRUE>>,
              <<36, 5, TRUE>>, <<0, 30, FALSE>>}

RawLists == UNION {[1..k -> RawRanges] : k \in 1..MaxSegs}

\* helpers.py:7-14, time_str_to_seconds of a whole number of seconds, 0.0 for
\* an empty string
TimeStrToSeconds(given, t) == IF given THEN t ELSE 0

\* main.py:311-314 and 408-410, enumerate(segments) with both times parsed:
\* <<start_sec, end_sec, i + 1>>, i + 1 naming the output file
ParsedSegments(raw) ==
    [k \in 1..Len(raw) |-> <<TimeStrToSeconds(raw[k][3], raw[k][1]),
                             TimeStrToSeconds(raw[k][3], raw[k][2]), k>>]

\* main.py:315 and 411, a segment passes "if end_sec <= start_sec: continue"
ValidRange(seg) == ~(seg[2] <= seg[1])

\* main.py:407-415, download_segments of _process_url_split
UrlSplitSegments(raw) == SelectSeq(ParsedSegments(raw), ValidRange)

\* main.py:684, a segment passes "if not start or not end: continue"
JsonGiven(seg) == seg[3]

\* main.py:680-690, download_segments of _process_json_item
JsonSegments(raw) ==
    LET given == SelectSeq([k \in 1..Len(raw) |->
                               <<raw[k][1], raw[k][2], raw[k][3], k>>],
                           JsonGiven)
    IN  [k \in 1..Len(given) |-> <<given[k][1], given[k][2], given[k][4]>>]

\* the caller hands download_segments to batch_download_segments, or returns
\* when the list is empty
HandToBatch(download_segments) ==
    /\ segments' = download_segments
    /\ job' = [s \in 1..Len(download_segments) |-> IdleJob]
    /\ calls' = [s \in 1..Len(download_segments) |-> NoCalls]
    /\ bpc' = IF download_segments = <<>> THEN "done" ELSE "loop"
    /\ UNCHANGED ext
    /\ UNCHANGED <<max_workers, bi, results, fs_dir, fs_chunks, fs_list,
                   list_lines, fs_out, join_inputs, join_ok, join_lines,
                   fs_join_list>>

\* main.py:406-422, _process_url_split
ProcessUrlSplit ==
    /\ bpc = "menu"
    /\ \E raw \in RawLists : HandToBatch(UrlSplitSegments(raw))

\* main.py:679-694, _process_json_item
ProcessJsonItem ==
    /\ bpc = "menu"
    /\ \E raw \in RawLists : HandToBatch(JsonSegments(raw))

\* main.py:293 and 309-311, do_split_join_flow with a URL: temp_files = []
\* and the loop over the segments as given
SplitJoinStart ==
    /\ bpc = "menu"
    /\ \E raw \in RawLists :
        /\ segments' = ParsedSegments(raw)
        /\ job' = [s \in 1..Len(raw) |-> IdleJob]
        /\ calls' = [s \in 1..Len(raw) |-> NoCalls]
    /\ bpc' = "sj_loop"
    /\ UNCHANGED ext
    /\ UNCHANGED <<max_workers, bi, results, fs_dir, fs_chunks, fs_list,
                   list_lines, fs_out, join_inputs, join_ok, join_lines,
                   fs_join_list>>

\* main.py:315-316, "if end_sec <= start_sec: continue"
SplitJoinSkip ==
    /\ bpc = "sj_loop"
    /\ bi <= Len(segments)
    /\ ~ValidRange(segments[bi])
    /\ bi' = bi + 1
    /\ UNCHANGED ext
    /\ UNCHANGED <<max_workers, segments, bpc, results, job, calls, fs_dir,
                   fs_chunks, fs_list, list_lines, fs_out, join_inputs,
                   join_ok, join_lines, fs_join_list>>

\* main.py:317-320, the loop body calls download_segment_parallel
SplitJoinCall ==
    /\ bpc = "sj_loop"
    /\ bi <= Len(segments)
    /\ ValidRange(segments[bi])
    /\ bpc' = "sj_call"
    /\ SetJob(bi, [job[bi] EXCEPT !.pc = "entry"])
    /\ UNCHANGED ext
    /\ UNCHANGED <<max_workers, segments, bi, results, calls, fs_dir,
                   fs_chunks, fs_list, list_lines, fs_out, join_inputs,
                   join_ok, join_lines, fs_join_list>>

\* main.py:320-323, temp_files.append(temp_file) when the call returned True
SplitJoinReturn ==
    /\ bpc = "sj_call"
    /\ CallReturned(bi)
    /\ results' = IF job[bi].ret = "True" THEN Append(results, Output(bi))
                  ELSE results
    /\ bi' = bi + 1
    /\ bpc' = "sj_loop"
    /\ UNCHANGED ext
    /\ UNCHANGED <<max_workers, segments, job, calls, fs_dir,
                   fs_chunks, fs_list, list_lines, fs_out, join_inputs,
                   join_ok, join_lines, fs_join_list>>

\* main.py:357-364, after the loop: nothing to join, or join_videos is called
\* with temp_files
SplitJoinJoin ==
    /\ bpc = "sj_loop"
    /\ bi > Len(segments)
    /\ bpc' = IF Len(results) < 1 THEN "done" ELSE "join_open"
    /\ join_inputs' = results
    /\ UNCHANGED ext
    /\ UNCHANGED <<max_workers, segments, bi, results, job, calls, fs_dir,
                   fs_chunks, fs_list, list_lines, fs_out,
                   join_ok, join_lines, fs_join_list>>

\* main.py:367-376, the finally block unlinks the temp files
SplitJoinCleanup ==
    /\ bpc \in {"join_returned", "join_raised"}
    /\ fs_out' = fs_out \ {results[k] : k \in 1..Len(results)}
    /\ bpc' = "done"
    /\ UNCHANGED ext
    /\ UNCHANGED <<max_workers, segments, bi, results, job, calls, fs_dir,
                   fs_chunks, fs_list, list_lines, join_inputs,
                   join_ok, join_lines, fs_join_list>>

\* ------------------------------- do_split_join_flow, local file (main.py)

\* main.py:328-340, split_segment: (i, temp_file) when the range is valid and
\* split_video did not raise, None otherwise; split_video raises for every
\* outcome of the engine but exit code 0 (ffmpeg_handler.py:202-205)
SplitSegmentResult(seg, engine) ==
    IF ValidRange(seg) /\ engine = "exit0" THEN "ok" ELSE "none"

TempFilesAsCompleted(split_results) == Files(split_results)

\* main.py:354-355, results.sort(key=lambda x: x[0]) and
\* temp_files = [f for _, f in results]
TempFiles(split_results) == Files(SortFrom(<<>>, split_results))

\* the split workers of the pool that are running
Splitting == {k \in DOMAIN split.fut : split.fut[k] = "running"}

\* main.py:293 and 342-346, the local branch: temp_files = [], one task per
\* segment as given is submitted to a pool of max_queue workers
LocalSplitStart ==
    /\ bpc = "menu"
    /\ \E raw \in RawLists :
        /\ segments' = ParsedSegments(raw)
        /\ job' = [s \in 1..Len(raw) |-> IdleJob]
        /\ calls' = [s \in 1..Len(raw) |-> NoCalls]
        /\ split' = [fut |-> [k \in 1..Len(raw) |-> "pending"],
                     yielded |-> {}, results |-> <<>>]
    /\ results' = <<>>
    /\ bpc' = "ls_collect"
    /\ UNCHANGED <<download_max_connection, max_queue, tdl, flow, call>>
    /\ UNCHANGED <<max_workers, bi, fs_dir, fs_chunks, fs_list,
                   list_lines, fs_out, join_inputs, join_ok, join_lines,
                   fs_join_list>>

\* main.py:344, a free worker of the pool takes a pending task
SplitWorkerStart ==
    /\ \E k \in DOMAIN split.fut :
        /\ split.fut[k] = "pending"
        /\ Cardinality(Splitting) < max_queue
        /\ split' = [split EXCEPT !.fut[k] = "running"]
    /\ UNCHANGED <<download_max_connection, max_queue, tdl, flow, call>>
    /\ UNCHANGED <<max_workers, segments, bpc, bi, results, job, calls,
                   fs_dir, fs_chunks, fs_list, list_lines, fs_out,
                   join_inputs, join_ok, join_lines, fs_join_list>>

\* main.py:328-340, split_segment returns in its worker; the engine writes
\* the temp file of the segment when it ends with exit code 0
SplitWorkerFinish ==
    /\ \E k \in DOMAIN split.fut, e \in EngineOutcomes :
        /\ split.fut[k] = "running"
        /\ split' = [split EXCEPT
                        !.fut[k] = SplitSegmentResult(segments[k], e)]
        /\ fs_out' = IF SplitSegmentResult(segments[k], e) = "ok"
                     THEN fs_out \cup {Output(k)} ELSE fs_out
    /\ UNCHANGED <<download_max_connection, max_queue, tdl, flow, call>>
    /\ UNCHANGED <<max_workers, segments, bpc, bi, results, job, calls,
                   fs_dir, fs_chunks, fs_list, list_lines,
                   join_inputs, join_ok, join_lines, fs_join_list>>

\* main.py:347-351, as_completed yields one finished future; its (i, file)
\* is appended when it is not None
SplitCollect ==
    /\ bpc = "ls_collect"
    /\ \E k \in DOMAIN split.fut \ split.yielded :
        /\ split.fut[k] \in {"ok", "none"}
        /\ split' = [split EXCEPT
                        !.yielded = @ \cup {k},
                        !.results = IF split.fut[k] = "ok"
                                    THEN Append(@, <<k - 1, Output(k)>>)
                                    ELSE @]
    /\ UNCHANGED <<download_max_connection, max_queue, tdl, flow, call>>
    /\ UNCHANGED <<max_workers, segments, bpc, bi, results, job, calls,
                   fs_dir, fs_chunks, fs_list, list_lines, fs_out,
                   join_inputs, join_ok, join_lines, fs_join_list>>

\* main.py:353-364, the loop has yielded every future: temp_files is the
\* sorted result list; with no file the flow returns, else join_videos is
\* called with temp_files
LocalSplitJoin ==
    /\ bpc = "ls_collect"
    /\ split.yielded = DOMAIN split.fut
    /\ results' = TempFiles(split.results)
    /\ join_inputs' = IF Len(results') < 1 THEN join_inputs ELSE results'
    /\ bpc' = IF Len(results') < 1 THEN "done" ELSE "join_open"
    /\ UNCHANGED ext
    /\ UNCHANGED <<max_workers, segments, bi, job, calls, fs_dir,
                   fs_chunks, fs_list, list_lines, fs_out,
                   join_ok, join_lines, fs_join_list>>

\* -------------------------------------------------- TDLHandler (tdl_handler)

\* the state of the downloader, of join_videos and of their callers
core == <<max_workers, segments, bpc, bi, results, job, calls, fs_dir,
          fs_chunks, fs_list, list_lines, fs_out, join_inputs, join_ok,
          join_lines, fs_join_list>>

\* the Telegram links given to start_serve
Urls == 1..MaxUrls

\* tdl_handler.py:137-145, how the stopping of a tracked process can go:
\* terminate and wait succeed; wait times out and kill and the second wait
\* succeed; the second wait times out too; terminate raises
StopOutcomes == {"terminated", "killed", "kill_timeout", "terminate_raised"}

\* tdl_handler.py:55, subprocess.Popen launches the process or raises OSError
PopenOutcomes == {"launched", "oserr"}

\* tdl_handler.py:63 and 68-88, _wait_for_server: the port answers, the time
\* runs out, the process has ended, or an exception that valid_port does not
\* catch (or a KeyboardInterrupt during the polling) leaves the function
WaitOutcomes == {"ready", "timeout", "died", "raised"}

\* tdl_handler.py:134-149, stop_serve: the handler afterwards. A process
\* whose stopping failed stays alive and is tracked no more (orphans)
StopServeResult(t, o) ==
    IF t.process = NoProcess THEN t
    ELSE [t EXCEPT
            !.process = NoProcess,
            !.current_url = NoUrl,
            !.live = IF o \in {"terminated", "killed"}
                     THEN @ \ {t.process} ELSE @,
            !.orphans = IF o \in {"terminated", "killed"}
                        THEN @ ELSE @ \cup ({t.process} \cap t.live)]

\* tdl_handler.py:33-66, start_serve: <<the handler afterwards, whether the
\* call raised>>
StartServeResult(t, url, stop, popen, wait) ==
    LET stopped == [StopServeResult(t, stop) EXCEPT !.current_url = url]
        pid     == t.launched + 1
        started == [stopped EXCEPT
                      !.process = pid,
                      !.launched = pid,
                      !.live = IF wait = "died" THEN @ ELSE @ \cup {pid}]
    IN  IF popen = "oserr" THEN <<stopped, TRUE>>
        ELSE <<started, wait = "raised">>

\* a call of start_serve with any outcome of what it invokes
StartServeCalls(t) ==
    {StartServeResult(t, url, stop, popen, wait) :
        url \in Urls, stop \in StopOutcomes, popen \in PopenOutcomes,
        wait \in WaitOutcomes}

\* tdl_handler.py:33-66, start_serve called on the handler outside a flow
StartServe ==
    /\ flow.pc = "idle"
    /\ tdl.launched < MaxLaunches
    /\ \E r \in StartServeCalls(tdl) :
          tdl' = [r[1] EXCEPT !.last = IF r[2] THEN "start_serve_raised"
                                       ELSE "start_serve"]
    /\ UNCHANGED <<download_max_connection, max_queue, flow, call, split>>
    /\ UNCHANGED core

\* tdl_handler.py:134-149, stop_serve called on the handler outside a flow
\* (tdl_handler.py:20-22, __exit__)
StopServe ==
    /\ flow.pc = "idle"
    /\ \E o \in StopOutcomes :
          tdl' = [StopServeResult(tdl, o) EXCEPT !.last = "stop_serve"]
    /\ UNCHANGED <<download_max_connection, max_queue, flow, call, split>>
    /\ UNCHANGED core

\* a serve process ends by itself
ServeExits ==
    /\ \E p \in tdl.live : tdl' = [tdl EXCEPT !.live = @ \ {p}]
    /\ UNCHANGED <<download_max_connection, max_queue, flow, call, split>>
    /\ UNCHANGED core

\* ------------------------------------- flows that resolve a link (main.py)

\* _process_url_split, _process_json_item, do_split_join_flow and
\* handle_download_if_needed
FlowNames == {"url_split", "json_item", "split_join", "download_if_needed"}

\* whether the flow calls start_serve inside its try block: main.py:297-301
\* against main.py:398 and 406, main.py:475-476, main.py:671 and 679
StartInTry(name) == name = "split_join"

\* whether the flow calls get_download_link inside its try block:
\* main.py:302 and main.py:477 against main.py:399 and main.py:672
ResolveInTry(name) == name \in {"split_join", "download_if_needed"}

\* main.py:698, _process_json_item catches the exceptions of its body
BodyCatches(name) == name = "json_item"

\* what get_download_link gives: a link, None, or an exception that leaves it
LinkOutcomes == {"link", "none", "raised"}

\* how the part of a flow after the resolution ends
BodyOutcomes == {"ok", "no_valid_segments", "download_failure", "exception"}

\* a flow is entered with a Telegram link or with another input; after an
\* exception the program goes on only where process_json_input caught it
\* (main.py:649)
FlowStart ==
    /\ \/ flow.pc \in {"idle", "returned"}
       \/ flow.pc = "raised" /\ flow.name = "json_item"
    /\ tdl.launched < MaxLaunches
    /\ \E name \in FlowNames, is_tdl \in BOOLEAN :
          flow' = [name |-> name, is_tdl |-> is_tdl, out |-> "none",
                   pc |-> IF is_tdl THEN "start_serve" ELSE "body"]
    /\ UNCHANGED <<download_max_connection, max_queue, tdl, call, split>>
    /\ UNCHANGED core

\* main.py:301, 398, 475 and 671, self.tdl.start_serve(url)
FlowStartServe ==
    /\ flow.pc = "start_serve"
    /\ \E r \in StartServeCalls(tdl) :
        /\ tdl' = [r[1] EXCEPT !.last = IF r[2] THEN "start_serve_raised"
                                        ELSE "start_serve"]
        /\ flow' = IF ~r[2] THEN [flow EXCEPT !.pc = "get_link"]
                   ELSE [flow EXCEPT
                           !.out = "exception",
                           !.pc = IF StartInTry(flow.name) THEN "finally"
                                  ELSE "raised"]
    /\ UNCHANGED <<download_max_connection, max_queue, call, split>>
    /\ UNCHANGED core

\* main.py:302-305, 399-403, 477-480 and 672-676, get_download_link and the
\* handling of a link that could not be resolved; a link is found only while
\* the serve process lives
FlowGetLink ==
    /\ flow.pc = "get_link"
    /\ \E o \in LinkOutcomes, stop \in StopOutcomes :
        /\ o = "link" => tdl.process \in tdl.live
        /\ flow' = [flow EXCEPT
                      !.out = CASE o = "link"   -> @
                                [] o = "none"   -> "resolution_failure"
                                [] OTHER        -> "exception",
                      !.pc = CASE o = "link" -> "body"
                               [] ResolveInTry(flow.name) -> "finally"
                               [] o = "none" -> "returned"
                               [] OTHER      -> "raised"]
        /\ tdl' = IF o = "none" /\ ~ResolveInTry(flow.name)
                  THEN [StopServeResult(tdl, stop) EXCEPT
                           !.last = "stop_serve"]
                  ELSE tdl
    /\ UNCHANGED <<download_max_connection, max_queue, call, split>>
    /\ UNCHANGED core

\* main.py:309-365, 406-425, 481-488 and 680-696, the flow's work with the
\* resolved link, inside the try block
FlowBody ==
    /\ flow.pc = "body"
    /\ \E o \in BodyOutcomes :
          flow' = [flow EXCEPT !.out = o, !.pc = "finally"]
    /\ UNCHANGED <<download_max_connection, max_queue, tdl, call, split>>
    /\ UNCHANGED core

\* main.py:367-370, 427-429, 489-490 and 698-702, the finally block, after
\* which the flow returns or its exception propagates
FlowFinally ==
    /\ flow.pc = "finally"
    /\ \E stop \in StopOutcomes :
          tdl' = IF flow.is_tdl
                 THEN [StopServeResult(tdl, stop) EXCEPT
                          !.last = "stop_serve"]
                 ELSE tdl
    /\ flow' = [flow EXCEPT
                  !.pc = IF flow.out = "exception" /\ ~BodyCatches(flow.name)
                         THEN "raised" ELSE "returned"]
    /\ UNCHANGED <<download_max_connection, max_queue, call, split>>
    /\ UNCHANGED core

\* ------------------------------------------------- show_settings (main.py)

\* what the user types at a prompt: <<str.isdigit(), whether int() parses it,
\* the value of int()>>. Digit strings "0", "1", ...; the strings "-1" and
\* "+4", which int() parses and which are not all digits; a string that is
\* no number; and a string such as a superscript two, for which isdigit() is
\* true and int() raises ValueError
EnteredNumbers ==
    (0..MaxEntered)
      \cup {MAX_QUEUE_LIMIT - 1, MAX_QUEUE_LIMIT, MAX_QUEUE_LIMIT + 1}
      \cup {MAX_CONNECTIONS - 1, MAX_CONNECTIONS, MAX_CONNECTIONS + 1}

Entered ==
    {<<TRUE, TRUE, n>> : n \in EnteredNumbers}
      \cup {<<FALSE, TRUE, 0 - 1>>, <<FALSE, TRUE, 4>>, <<FALSE, FALSE, 0>>,
            <<TRUE, FALSE, 0>>}

ConnectionsAcceptedUnchecked(val) == val[1] /\ val[2]

\* main.py:134, "if val.isdigit() and 1 <= int(val) <= 64"; when int() raises
\* nothing is assigned
ConnectionsAccepted(val) ==
    val[1] /\ val[2] /\ 1 <= val[3] /\ val[3] <= MAX_CONNECTIONS

\* main.py:125, "if val.isdigit() and 1 <= int(val) <= 16"
QueueAccepted(val) ==
    val[1] /\ val[2] /\ 1 <= val[3] /\ val[3] <= MAX_QUEUE_LIMIT

\* main.py:90-91 and 95-116, the settings menu is opened from the main menu
ShowSettings ==
    /\ bpc = "menu"
    /\ bpc' = "settings"
    /\ UNCHANGED ext
    /\ UNCHANGED <<max_workers, segments, bi, results, job, calls, fs_dir,
                   fs_chunks, fs_list, list_lines, fs_out, join_inputs,
                   join_ok, join_lines, fs_join_list>>

\* main.py:120-128, the choice "max_queue"
SettingsMaxQueue ==
    /\ bpc = "settings"
    /\ \E val \in Entered :
        /\ max_queue' = IF QueueAccepted(val) THEN val[3] ELSE max_queue
        /\ call' = [op |-> "max_queue", arg |-> val, runs |-> 0,
                    ret |-> <<max_queue>>]
    /\ UNCHANGED <<download_max_connection, tdl, flow, split>>
    /\ UNCHANGED core

\* main.py:129-138, the choice "connections"; ret keeps the two values as
\* they were before
SettingsConnections ==
    /\ bpc = "settings"
    /\ \E val \in Entered :
        /\ download_max_connection' =
              IF ConnectionsAccepted(val) THEN val[3]
              ELSE download_max_connection
        /\ max_workers' =
              IF ConnectionsAccepted(val) THEN val[3] ELSE max_workers
        /\ call' = [op |-> "connections", arg |-> val, runs |-> 0,
                    ret |-> <<download_max_connection, max_workers>>]
    /\ UNCHANGED <<max_queue, tdl, flow, split>>
    /\ UNCHANGED <<segments, bpc, bi, results, job, calls, fs_dir,
                   fs_chunks, fs_list, list_lines, fs_out, join_inputs,
                   join_ok, join_lines, fs_join_list>>

\* main.py:118-119, the choice "back"
SettingsBack ==
    /\ bpc = "settings"
    /\ bpc' = "menu"
    /\ UNCHANGED ext
    /\ UNCHANGED <<max_workers, segments, bi, results, job, calls, fs_dir,
                   fs_chunks, fs_list, list_lines, fs_out, join_inputs,
                   join_ok, join_lines, fs_join_list>>

\* ------------------------------------------------------------ specifications

JobStep(s) ==
    \/ Entry(s) \/ Single(s) \/ GetTempDir(s) \/ Plan(s) \/ Submit(s)
    \/ WorkerStart(s) \/ WorkerFinish(s) \/ Collect(s) \/ CollectEnd(s)
    \/ ExitWith(s) \/ Decide(s) \/ Sort(s) \/ MergeOpen(s) \/ MergeRun(s)
    \/ MergeFinally(s) \/ Finally(s) \/ ReturnToCaller(s)

Next ==
    \/ BatchStart \/ BatchCall \/ BatchReturn \/ BatchDone
    \/ SmartDownload
    \/ JoinStart \/ JoinOpen \/ JoinRun \/ JoinFinally
    \/ \E s \in Segs : JobStep(s)

\* Next, and executor.submit or the collection loop may raise
NextExc ==
    \/ Next
    \/ BatchPropagate
    \/ \E s \in Segs : SubmitRaises(s) \/ CollectRaises(s)

NextPlan == \E s \in Segs : Plan(s)

\* download_segment_parallel called from several threads of one process
NextConc == \E s \in Segs : ConcurrentCall(s) \/ JobStep(s)

\* the program at its menu, nothing handed to the downloader yet
InitCallers == InitWith(1..MaxBatchWorkers, {<<>>})

\* the three callers of the downloader, each with what it does around it
NextCallers ==
    \/ ProcessUrlSplit \/ ProcessJsonItem
    \/ SplitJoinStart \/ SplitJoinSkip \/ SplitJoinCall \/ SplitJoinReturn
    \/ SplitJoinJoin \/ SplitJoinCleanup
    \/ BatchCall \/ BatchReturn \/ BatchDone
    \/ JoinOpen \/ JoinRun \/ JoinFinally
    \/ \E s \in Segs : JobStep(s)

\* the handler functions called one after the other, each with any outcome
\* of what it invokes
NextHandlers == GetVideoInfo \/ GetDuration \/ GetBinaryPath \/ SmartDownload

SpecHandlers == InitCallers /\ [][NextHandlers]_vars

\* the program at its menu, the pool of the split flow of 1..MaxQueue workers
InitLocal ==
    /\ max_workers \in 1..MaxBatchWorkers
    /\ segments = <<>>
    /\ bpc = "menu"
    /\ bi = 1
    /\ results = <<>>
    /\ job = <<>>
    /\ calls = <<>>
    /\ fs_dir = FALSE
    /\ fs_chunks = {}
    /\ fs_list = FALSE
    /\ list_lines = <<>>
    /\ fs_out = {}
    /\ join_inputs = <<>>
    /\ join_ok = FALSE
    /\ join_lines = <<>>
    /\ fs_join_list = FALSE
    /\ download_max_connection = max_workers
    /\ max_queue \in 1..MaxQueue
    /\ tdl = NoTdl
    /\ flow = NoFlow
    /\ call = NoCall
    /\ split = NoSplit

NextLocal ==
    \/ LocalSplitStart \/ SplitWorkerStart \/ SplitWorkerFinish
    \/ SplitCollect \/ LocalSplitJoin
    \/ JoinOpen \/ JoinRun \/ JoinFinally \/ SplitJoinCleanup

\* the split-and-join flow on a local file
SpecLocal == InitLocal /\ [][NextLocal]_vars

NextTdl ==
    \/ StartServe \/ StopServe \/ ServeExits
    \/ FlowStart \/ FlowStartServe \/ FlowGetLink \/ FlowBody \/ FlowFinally

\* the TDL handler, called directly and by the flows that resolve a link
SpecTdl == InitCallers /\ [][NextTdl]_vars

NextSettings ==
    ShowSettings \/ SettingsMaxQueue \/ SettingsConnections \/ SettingsBack

\* the settings menu, opened and left any number of times
SpecSettings == InitCallers /\ [][NextSettings]_vars

\* the manual split flow, the split-and-join flow and the JSON batch flow
SpecCallers == InitCallers /\ [][NextCallers]_vars

\* calls of download_segment_parallel that overlap in time in one process
SpecConc == InitBatch /\ [][NextConc]_vars

\* the chunk planner alone
SpecPlan == InitPlan /\ [][NextPlan]_vars

\* one download_segment_parallel job, the engine ending every invocation in
\* any of EngineOutcomes
Spec == Init /\ [][Next]_vars

\* batch_download_segments over a list of segments
SpecBatch == InitBatch /\ [][Next]_vars

\* one job, in which executor.submit or the collection loop may raise
SpecExc == Init /\ [][NextExc]_vars

\* the steps of a job and of the batch loop that the threads of the program
\* take by themselves, the planning step apart
ProgramSteps ==
    \/ BatchCall \/ BatchReturn \/ BatchDone
    \/ \E s \in Segs :
          \/ Entry(s) \/ GetTempDir(s) \/ Submit(s)
          \/ WorkerStart(s) \/ Collect(s) \/ CollectEnd(s) \/ ExitWith(s)
          \/ Decide(s) \/ Sort(s) \/ MergeOpen(s) \/ MergeFinally(s)
          \/ Finally(s) \/ ReturnToCaller(s)

\* the steps that end when an engine subprocess exits
EngineExits == \E s \in Segs : Single(s) \/ WorkerFinish(s) \/ MergeRun(s)

\* no job is at its planning step. Plan(s) is enabled exactly when job s is
\* at "plan" and leaves that position, so that []<>NoJobPlanning is weak
\* fairness of the planning step, written without ENABLED
NoJobPlanning == \A s \in Segs : job[s].pc # "plan"

\* a batch of up to MaxLiveSegs segments, each a range below the threshold or
\* at it, parallelism 1..MaxLiveWorkers
LiveLists ==
    UNION {[1..k -> {<<0, 29, "out">>, <<0, 30, "out">>}] :
              k \in 1..MaxLiveSegs}

InitLive == InitWith(1..MaxLiveWorkers, LiveLists)

\* batch_download_segments with threads that keep running (the main thread
\* and the pool's workers are never suspended for ever) and an engine of
\* which every invocation exits
SpecLive ==
    /\ InitLive
    /\ [][Next]_vars
    /\ WF_vars(ProgramSteps)
    /\ []<>NoJobPlanning
    /\ WF_vars(EngineExits)

\* ------------------------------------------------------------------ claims

Failed(s) == {i \in Submitted(s) : job[s].fut[i] \in {"fail", "raised"}}
AllOk(s) ==
    /\ Submitted(s) = 0..(max_workers - 1)
    /\ \A i \in Submitted(s) : job[s].fut[i] = "ok"
InFlight(s) == {i \in Submitted(s) : job[s].fut[i] \in {"pending", "running"}}
Merging == {"merge_open", "merge_run", "merge_finally"}
Ascending == [k \in 1..max_workers |-> ChunkFile(k - 1)]

\* C1: whatever the order in which the chunk fetches complete, the list of
\* chunk paths handed to the merge step is chunk 0, chunk 1, ..., chunk N-1.
C1_MergeOrder ==
    \A s \in Segs :
        /\ job[s].pc \in Merging => job[s].ordered_files = Ascending
        /\ job[s].pc = "merge_run" => list_lines = ManifestLines(Ascending)

\* a merge that was handed its list after the last chunk completed first
C1_Witness ==
    \E s \in Segs :
        /\ job[s].pc = "merge_open"
        /\ max_workers >= 3
        /\ job[s].completion[1] = max_workers - 1
        /\ job[s].completion[2] = 0
        /\ job[s].ordered_files = Ascending

\* C2: once a chunk fetch of a job has failed, the merge step is never
\* invoked, the output file is not produced, and the call ends returning
\* False with the temp directory removed.
C2_AllOrNothing ==
    \A s \in Segs :
        Failed(s) # {} =>
            /\ job[s].pc \notin {"sort"} \cup Merging
            /\ calls[s].merge = 0
            /\ Output(s) \notin fs_out
            /\ job[s].pc = "exit" => job[s].ret = "False" /\ ~fs_dir

\* a job returning with one chunk failed and another one downloaded
C2_Witness ==
    \E s \in Segs :
        /\ job[s].pc = "exit"
        /\ Cardinality(Failed(s)) = 1
        /\ \E i \in Submitted(s) : job[s].fut[i] = "ok"
        /\ job[s].ret = "False"

\* C3: the job takes the all-succeeded branch exactly when every one of the
\* N chunk tasks reported success, and every non-empty set of failed or
\* raising chunks gives the one result False.
C3_AllSucceededIff ==
    \A s \in Segs :
        /\ job[s].pc = "decide" => (job[s].success <=> AllOk(s))
        /\ job[s].pc = "sort" => AllOk(s)
        /\ job[s].pc = "finally" /\ calls[s].merge = 0 /\ ~job[s].exc
              => ~AllOk(s) /\ job[s].ret = "False"
        /\ job[s].pc = "exit" /\ Failed(s) # {} => job[s].ret = "False"

\* a job that failed with one chunk returning False and another one raising
C3_Witness ==
    \E s \in Segs :
        /\ job[s].pc = "finally"
        /\ job[s].ret = "False"
        /\ \E i, j \in Submitted(s) :
              job[s].fut[i] = "fail" /\ job[s].fut[j] = "raised"

\* C4: when a call that created the temp directory ends, by returning True,
\* returning False or raising, the directory does not exist.
C4_TempDirRemoved ==
    \A s \in Segs :
        job[s].pc \in {"exit", "returned", "raised"} /\ calls[s].mkdir > 0
            => ~fs_dir /\ fs_chunks = {}

\* a call that ended by raising after it created the directory and
\* downloaded a chunk into it
C4_Witness ==
    \E s \in Segs :
        /\ job[s].pc = "raised"
        /\ calls[s].mkdir = 1
        /\ calls[s].fetch > 0

\* C5: a concat manifest exists only while the merge or join call that wrote
\* it is running: after _merge_chunks or join_videos has ended, with any
\* engine outcome, the manifest is gone.
C5_ManifestScoped ==
    /\ fs_list => \E s \in Segs : job[s].pc \in {"merge_run", "merge_finally"}
    /\ fs_join_list => bpc \in {"join_run", "join_finally"}
    /\ \A s \in Segs : job[s].pc \in {"finally", "exit", "returned"} => ~fs_list
    /\ bpc \in {"join_returned", "join_raised"} => ~fs_join_list

\* a merge call that wrote its manifest, whose engine failed, and that ended
C5_Witness ==
    \E s \in Segs :
        /\ job[s].pc = "finally"
        /\ calls[s].merge = 1
        /\ list_lines # <<>>
        /\ ~job[s].merged

\* C6: a call for a range shorter than 30 s, or with parallelism <= 1, makes
\* one direct download and nothing else; a call for 30 s or more with
\* parallelism N >= 2 makes no direct download and plans exactly N chunks.
C6_Threshold ==
    \A s \in Segs :
        IF segments[s][2] - segments[s][1] < 30 \/ max_workers <= 1
        THEN /\ calls[s].mkdir = 0 /\ calls[s].plan = 0 /\ calls[s].submit = 0
             /\ calls[s].fetch = 0 /\ calls[s].merge = 0
             /\ calls[s].single <= 1
             /\ job[s].chunks = <<>>
             /\ job[s].pc \in {"exit", "returned"} => calls[s].single = 1
        ELSE /\ calls[s].single = 0
             /\ calls[s].plan <= 1
             /\ calls[s].plan = 1 =>
                   \/ job[s].pc = "returned"
                   \/ /\ Len(job[s].chunks) = max_workers
                      /\ \A k \in 1..max_workers :
                            job[s].chunks[k][3] = ChunkFile(k - 1)
             /\ job[s].pc \in {"exit", "returned"} =>
                   calls[s].plan = 1 /\ calls[s].submit = max_workers

\* a 31 s call with parallelism 4 that planned exactly 4 chunks
C6_Witness ==
    \E s \in Segs :
        /\ segments[s][2] - segments[s][1] = 31
        /\ max_workers = 4
        /\ job[s].pc = "exit"
        /\ Len(job[s].chunks) = 4
        /\ calls[s].single = 0

\* exact arithmetic on limbs, for stating where chunks start and end
ExactSum(x, y) ==
    Normalize(<<x[1] + y[1], x[2] + y[2], x[3] + y[3], x[4] + y[4]>>)
ExactMul(i, x) == Normalize(<<i * x[1], i * x[2], i * x[3], i * x[4]>>)
Less(x, y) ==
    \E k \in 1..4 : x[k] < y[k] /\ \A j \in 1..(k - 1) : x[j] = y[j]
Minus(x, y) ==
    LET d0 == x[4] - y[4]
        b0 == IF d0 < 0 THEN 1 ELSE 0
        d1 == x[3] - y[3] - b0
        b1 == IF d1 < 0 THEN 1 ELSE 0
        d2 == x[2] - y[2] - b1
        b2 == IF d2 < 0 THEN 1 ELSE 0
    IN  <<x[1] - y[1] - b2, d2 + b2 * LimbBase, d1 + b1 * LimbBase,
          d0 + b0 * LimbBase>>
AbsDiff(x, y) == IF Less(x, y) THEN Minus(y, x) ELSE Minus(x, y)
\* 10^-6 s, cut off below 2^-60
Tolerance == <<0, 1, 50935, 658270>>
Within(x, y) == ~Less(Tolerance, AbsDiff(x, y))
Planned(s) == job[s].pc = "submit" /\ Submitted(s) = {}

\* C7 (as claimed): the planner produces N chunks with indices 0..N-1, each
\* of duration (end-start)/N, chunk 0 starting at start, every next chunk
\* starting exactly where the one before ends and the last one ending
\* exactly at end.
C7_ExactCover ==
    \A s \in Segs : Planned(s) =>
        LET ch == job[s].chunks
            d  == ch[1][2]
        IN  /\ Len(ch) = max_workers
            /\ \A k \in 1..Len(ch) : ch[k][3] = ChunkFile(k - 1) /\ ch[k][2] = d
            /\ ExactMul(max_workers, d)
                  = FromInt(segments[s][2] - segments[s][1])
            /\ ch[1][1] = FromInt(segments[s][1])
            /\ \A k \in 1..(Len(ch) - 1) : ch[k + 1][1] = ExactSum(ch[k][1], d)
            /\ ExactSum(ch[Len(ch)][1], d) = FromInt(segments[s][2])

\* C7 (amended): the planner produces N chunks with indices 0..N-1, all of
\* one duration that is (end-start)/N to within 10^-6 s, chunk 0 starting at
\* start, every next chunk starting where the one before ends and the last
\* one ending at end, each to within 10^-6 s.
C7_CoverWithinTolerance ==
    \A s \in Segs : Planned(s) =>
        LET ch == job[s].chunks
            d  == ch[1][2]
        IN  /\ Len(ch) = max_workers
            /\ \A k \in 1..Len(ch) : ch[k][3] = ChunkFile(k - 1) /\ ch[k][2] = d
            /\ Within(ExactMul(max_workers, d),
                      FromInt(segments[s][2] - segments[s][1]))
            /\ ch[1][1] = FromInt(segments[s][1])
            /\ \A k \in 1..(Len(ch) - 1) :
                  Within(ch[k + 1][1], ExactSum(ch[k][1], d))
            /\ Within(ExactSum(ch[Len(ch)][1], d), FromInt(segments[s][2]))

\* a plan of three chunks whose last chunk does not end exactly at end
C7_Witness ==
    \E s \in Segs :
        /\ Planned(s)
        /\ max_workers = 3
        /\ segments[s][1] > 0
        /\ ExactSum(job[s].chunks[3][1], job[s].chunks[3][2])
              # FromInt(segments[s][2])

\* C8 (as claimed): with a parallelism below 1 no download is made.
C8_NoDownloadBelowOne ==
    max_workers < 1 =>
        \A s \in Segs :
            /\ calls[s].single = 0
            /\ calls[s].fetch = 0
            /\ job[s].ret # "True"

\* C9: a batch call ends with one result per segment, in input order, each
\* holding the segment's output name and the outcome of its job, every
\* segment having been attempted, whichever segments failed.
C9_BatchComplete ==
    /\ Len(results) <= Len(segments)
    /\ \A k \in 1..Len(results) :
          /\ results[k][1] = segments[k][3]
          /\ results[k][2] \in {"True", "False"}
          /\ results[k][2] = job[k].ret
          /\ results[k][2] = "True" <=> segments[k][3] \in fs_out
          /\ calls[k].single + calls[k].mkdir = 1
    /\ bpc = "done" => Len(results) = Len(segments)

\* a finished batch whose first segment failed and whose second succeeded
C9_Witness ==
    /\ bpc = "done"
    /\ Len(results) = 2
    /\ results[1][2] = "False"
    /\ results[2][2] = "True"


\* C10: a segment's job starts only when every earlier segment's job has
\* returned, with its manifest and temp directory removed, and chunk fetches
\* of two segments are never in flight together.
C10_Sequential ==
    /\ \A s, t \in Segs :
          s < t /\ job[t].pc # "idle" => job[s].pc = "returned"
    /\ \A t \in Segs : job[t].pc = "entry" => ~fs_dir /\ ~fs_list
    /\ \A s, t \in Segs : s # t => InFlight(s) = {} \/ InFlight(t) = {}

\* the second segment's chunks in flight after a first segment that was
\* downloaded in chunks and merged
C10_Witness ==
    /\ Len(segments) >= 2
    /\ calls[1].merge = 1
    /\ job[1].pc = "returned"
    /\ job[2].pc = "collect"
    /\ Cardinality(Running(2)) = 2

\* the with block of downloader.py:186-203 has been left
PastPool == {"decide", "sort", "merge_open", "merge_run", "merge_finally",
             "finally", "exit"}

\* C11: a failed chunk stops nothing: when the job decides (and from then on
\* until it returns) every one of the N chunk tasks has been started, has run
\* to completion and has been looked at by the collection loop, and no task
\* is ever started twice; the job is only declared failed in that state.
C11_NoFailFast ==
    \A s \in Segs :
        /\ job[s].pc \in PastPool /\ calls[s].mkdir > 0 =>
              /\ Submitted(s) = 0..(max_workers - 1)
              /\ \A i \in Submitted(s) : job[s].fut[i] \in Finished
              /\ job[s].yielded = Submitted(s)
              /\ calls[s].fetch = max_workers
        /\ ~job[s].success /\ job[s].pc = "collect" => job[s].ret = "none"

\* a job at its decision, the first chunk it collected having failed and every
\* other chunk having been fetched
C11_Witness ==
    \E s \in Segs :
        /\ job[s].pc = "decide"
        /\ max_workers >= 3
        /\ job[s].completion[1] \in Failed(s)
        /\ Cardinality(Failed(s)) = 1
        /\ calls[s].fetch = max_workers

\* the indices recorded in chunk_files
Recorded(s) == {job[s].chunk_files[k][1] : k \in 1..Len(job[s].chunk_files)}

\* C12: a chunk worker that raised is a failed result of its index: no
\* exception leaves the call, the index is not among the downloaded chunks,
\* success is cleared, and the call returns False; after the collection loop
\* every index is recorded as downloaded exactly when its worker returned
\* True.
C12_WorkerExceptionRecorded ==
    \A s \in Segs :
        /\ ~job[s].exc /\ job[s].pc # "raised"
        /\ \A i \in job[s].yielded :
              job[s].fut[i] = "raised" =>
                  ~job[s].success /\ i \notin Recorded(s)
        /\ job[s].pc \in PastPool /\ calls[s].mkdir > 0 =>
              /\ \A i \in 0..(max_workers - 1) :
                    i \in Recorded(s) <=> job[s].fut[i] = "ok"
              /\ job[s].success <=> Failed(s) = {}
        /\ job[s].pc = "exit" =>
              /\ job[s].ret \in {"True", "False"}
              /\ (\E i \in Submitted(s) : job[s].fut[i] = "raised")
                    => job[s].ret = "False"

\* a call about to return False, one worker having raised and another one
\* having downloaded its chunk
C12_Witness ==
    \E s \in Segs :
        /\ job[s].pc = "exit"
        /\ job[s].ret = "False"
        /\ \E i, j \in Submitted(s) :
              job[s].fut[i] = "raised" /\ job[s].fut[j] = "ok"

\* C13: the merge step runs only when all N chunk results are successes and
\* no chunk fetch of the job is queued or running, and it is invoked at most
\* once per job.
C13_MergeAfterAllSucceeded ==
    \A s \in Segs :
        /\ calls[s].merge <= 1
        /\ job[s].pc \in {"sort"} \cup Merging =>
              /\ AllOk(s)
              /\ InFlight(s) = {}
              /\ job[s].yielded = 0..(max_workers - 1)
              /\ job[s].success
        /\ calls[s].merge = 1 /\ job[s].pc \in PastPool =>
              AllOk(s) /\ InFlight(s) = {}

\* the concat engine invoked once, all four chunks downloaded
C13_Witness ==
    \E s \in Segs :
        /\ job[s].pc = "merge_run"
        /\ max_workers = 4
        /\ calls[s].merge = 1
        /\ calls[s].fetch = 4
        /\ AllOk(s)

\* C14: while a chunked job runs, the number of chunk fetches whose engine
\* call is in flight is at most the configured parallelism max_workers, and
\* a fetch is only started while fewer than max_workers are in flight.
C14_PoolCeiling ==
    \A s \in Segs :
        calls[s].mkdir > 0 =>
            /\ Cardinality(Running(s)) <= max_workers
            /\ calls[s].fetch
                  - Cardinality({i \in Submitted(s) :
                                   job[s].fut[i] \in Finished})
                  <= max_workers

\* the ceiling reached: four fetches in flight with a parallelism of four
C14_Witness ==
    \E s \in Segs :
        /\ max_workers = 4
        /\ Cardinality(Running(s)) = 4

\* the call holds a temp directory: from _get_temp_dir to its finally block
HoldsDir == {"plan", "submit", "collect", "exit_with", "decide", "sort",
             "merge_open", "merge_run", "merge_finally", "finally"}

\* C15 (as claimed): two calls that overlap in time use different temp
\* directories and different manifests, and no call loses its directory, a
\* chunk it downloaded or the manifest it wrote to another call.
C15_ExclusiveTempDir ==
    /\ \A s, t \in Segs :
          s # t /\ job[s].pc \in HoldsDir /\ job[t].pc \in HoldsDir =>
              job[s].temp_dir # job[t].temp_dir
    /\ \A s, t \in Segs :
          s # t /\ job[s].pc \in Merging /\ job[t].pc \in Merging =>
              job[s].list_file # job[t].list_file
    /\ \A s \in Segs :
          /\ job[s].pc \in HoldsDir => fs_dir
          /\ job[s].pc \in HoldsDir \ {"plan", "finally"} =>
                \A i \in Submitted(s) :
                    job[s].fut[i] = "ok" =>
                        job[s].chunks[i + 1][3] \in fs_chunks
          /\ job[s].pc = "merge_run" =>
                fs_list /\ list_lines = ManifestLines(job[s].ordered_files)

\* C16: nothing is retried: a chunked job submits N tasks and invokes the
\* fetch engine N times in all, once per chunk whatever the outcomes, invokes
\* the merge at most once and never falls back to a direct download; a
\* single-download job invokes the direct download once and nothing else.
C16_NoRetry ==
    \A s \in Segs :
        /\ calls[s].single <= 1 /\ calls[s].merge <= 1 /\ calls[s].plan <= 1
        /\ calls[s].single = 0 \/ calls[s].mkdir = 0
        /\ calls[s].mkdir > 0 =>
              /\ calls[s].submit <= max_workers
              /\ calls[s].fetch <= calls[s].submit
              /\ job[s].pc # "returned" =>
                    calls[s].fetch
                      = Cardinality({i \in Submitted(s) :
                                       job[s].fut[i] # "pending"})
              /\ job[s].pc \in PastPool \cup {"returned"} =>
                    calls[s].submit = max_workers
                    /\ calls[s].fetch = max_workers
        /\ job[s].pc \in {"exit", "returned"} =>
              calls[s].single + calls[s].mkdir = 1

\* a job returning False after a failed merge: four fetches, one merge
C16_Witness ==
    \E s \in Segs :
        /\ job[s].pc = "exit"
        /\ job[s].ret = "False"
        /\ calls[s].merge = 1
        /\ calls[s].fetch = 4
        /\ calls[s].single = 0

\* C17: whatever the outcomes of the chunk fetches, of the merge and of the
\* direct download, the engine raising included, the call raises nothing and
\* ends with True or False; it ends with True only when the output file was
\* produced, by the one direct download or by the one merge having succeeded.
C17_NeverFatal ==
    \A s \in Segs :
        /\ job[s].pc # "raised" /\ ~job[s].exc
        /\ job[s].pc \in {"exit", "returned"} =>
              job[s].ret \in {"True", "False"}
        /\ job[s].ret = "True" =>
              /\ Output(s) \in fs_out
              /\ calls[s].single + calls[s].merge = 1
              /\ job[s].pc = "exit" /\ calls[s].merge = 1 =>
                    job[s].merged /\ AllOk(s)

\* a direct download that failed: the call ends with False, nothing produced
C17_Witness ==
    \E s \in Segs :
        /\ job[s].pc = "returned"
        /\ calls[s].single = 1
        /\ job[s].ret = "False"
        /\ Output(s) \notin fs_out

\* C18 (as claimed): every segment a caller hands to batch_download_segments
\* or to download_segment_parallel has end > start.
C18_CallersFilter ==
    /\ bpc \in {"loop", "call"} =>
          \A s \in Segs : segments[s][2] > segments[s][1]
    /\ \A s \in Segs : job[s].pc # "idle" => segments[s][2] > segments[s][1]

\* a path lies under the configured cache directory
UnderCacheDir(path) == path[1] = "CACHE_DIR"

\* C19 (as claimed): every intermediate file that exists, the temp directory,
\* a chunk file, the manifest of _merge_chunks and the manifest of
\* join_videos, lies under CACHE_DIR.
C19_IntermediatesInCache ==
    /\ fs_dir => UnderCacheDir(TempDir)
    /\ \A f \in fs_chunks : f[1] = TempDir[2] /\ UnderCacheDir(TempDir)
    /\ \A s \in Segs : \A k \in 1..Len(job[s].chunks) :
          job[s].chunks[k][3][1] = TempDir[2] /\ UnderCacheDir(TempDir)
    /\ fs_list => UnderCacheDir(ListFile)
    /\ fs_join_list => UnderCacheDir(JoinListFile)

\* C20: the manifest handed to the concat engine has one line per input
\* path, line k naming path k of the list as given, in _merge_chunks and in
\* join_videos: nothing is reordered, dropped or written twice.
C20_ManifestAsGiven ==
    /\ \A s \in Segs : job[s].pc = "merge_run" =>
          /\ Len(list_lines) = Len(job[s].ordered_files)
          /\ \A k \in 1..Len(list_lines) :
                list_lines[k] = <<"file", SafePath(job[s].ordered_files[k])>>
    /\ bpc = "join_run" =>
          /\ Len(join_lines) = Len(join_inputs)
          /\ \A k \in 1..Len(join_lines) :
                join_lines[k] = <<"file", SafePath(join_inputs[k])>>

\* join_videos about to run the engine on a list given in the order b, a
C20_Witness ==
    /\ bpc = "join_run"
    /\ join_inputs = <<"b", "a">>
    /\ join_lines = <<<<"file", SafePath("b")>>, <<"file", SafePath("a")>>>>

\* the positions of a chunked job at which its chunk files are still on disk
WithChunks == {"submit", "collect", "exit_with", "decide", "sort",
               "merge_open", "merge_run", "merge_finally", "finally"}

\* smart_download and _download_chunk: one invocation of the engine per call,
\* True exactly for exit code 0 (the invocation that left the chunk file),
\* False for a non-zero exit code and for a SubprocessError
FetchesMapExitStatus ==
    /\ \A e \in EngineOutcomes :
          /\ DownloadChunkResult(e) = "ok" <=> e = "exit0"
          /\ e \in {"nonzero", "suberr"} => DownloadChunkResult(e) = "fail"
    /\ call.op = "smart_download" =>
          /\ call.runs = 1
          /\ call.ret = <<"True">> <=> call.arg = <<"exit0">>
          /\ call.arg[1] \in {"nonzero", "suberr"} => call.ret = <<"False">>
    /\ \A s \in Segs :
          job[s].pc \in WithChunks =>
              /\ calls[s].fetch = Cardinality({i \in Submitted(s) :
                                                job[s].fut[i] # "pending"})
              /\ \A i \in Submitted(s) :
                    job[s].fut[i] = "ok"
                      <=> job[s].chunks[i + 1][3] \in fs_chunks

\* C21 as stated: smart_download, _download_chunk and _merge_chunks each
\* invoke the engine exactly once and return True if and only if its exit
\* code is 0; a non-zero exit code or a subprocess error yields False.
C21_ExitStatusToBoolean ==
    /\ FetchesMapExitStatus
    /\ \A s \in Segs :
          job[s].pc = "merge_finally" =>
              /\ calls[s].concat = 1
              /\ job[s].merged <=> Output(s) \in fs_out

\* C21: smart_download and _download_chunk invoke the engine exactly once per
\* call, _merge_chunks at most once: not at all when its manifest cannot be
\* written, and then it returns False. Each returns True if and only if the
\* engine ran and its exit code is 0; a non-zero exit code or a subprocess
\* error yields False.
C21_ExitStatusWhenInvoked ==
    /\ FetchesMapExitStatus
    /\ \A e \in EngineOutcomes :
          /\ MergeResult(e) <=> e = "exit0"
          /\ SmartDownloadResult(e) = "True" <=> e = "exit0"
    /\ \A s \in Segs :
          job[s].pc = "merge_finally" =>
              /\ calls[s].concat <= 1
              /\ job[s].merged
                   <=> calls[s].concat = 1 /\ Output(s) \in fs_out

\* _merge_chunks about to return False without having invoked the engine,
\* every chunk of its job fetched with exit code 0
C21_Witness ==
    \E s \in Segs :
        /\ job[s].pc = "merge_finally"
        /\ calls[s].concat = 0
        /\ ~job[s].merged
        /\ calls[s].fetch = max_workers
        /\ \A i \in Submitted(s) : job[s].fut[i] = "ok"

\* C22: get_video_info returns the parsed metadata when the probe exits 0
\* with parsable output and None, without raising, when it exits non-zero or
\* its output does not parse; get_duration returns the duration of the
\* metadata, and 0.0 when the probe failed or the duration is missing.
C22_ProbeResults ==
    LET exit == call.arg[1]
        out  == call.arg[2]
        fmt  == out[3]
    IN  /\ call.op = "get_video_info" =>
              /\ exit = "exit0" /\ out[1] = "json"
                    => call.ret = <<"info", <<out[2], out[3]>>>>
              /\ exit = "nonzero" \/ (exit = "exit0" /\ out[1] = "garbage")
                    => call.ret = <<"None">>
        /\ call.op = "get_duration" =>
              /\ exit = "nonzero" \/ (exit = "exit0" /\ out[1] = "garbage")
                    => call.ret = <<"float", 0>>
              /\ exit = "exit0" /\ out[1] = "json" =>
                    IF fmt[1] = "object" /\ fmt[2][1] = "number"
                    THEN call.ret = <<"float", fmt[2][2]>>
                    ELSE call.ret = <<"float", 0>>

\* get_duration gave 0.0 for a probe that exited 0 with streams and a format
\* object whose duration is no number
C22_Witness ==
    /\ call.op = "get_duration"
    /\ call.arg = <<"exit0", <<"json", TRUE, <<"object", <<"text">>>>>>>>
    /\ call.ret = <<"float", 0>>

\* C23: the executable is taken from the local override directory if it is
\* there; otherwise the system search path is used; only if neither resolves
\* is the binary fetched.
C23_ResolutionOrder ==
    call.op = "get_binary_path" =>
        LET env     == call.arg[2]
            local   == LocalBinExists(env[1], env[2], env[3])
            on_path == env[4]
        IN  /\ local => call.ret = <<"local", FALSE, FALSE>>
            /\ ~local /\ on_path => call.ret = <<"bare", FALSE, FALSE>>
            /\ call.ret[2] \/ call.ret[3] => ~local /\ ~on_path

\* C24: when every chunk and concat subprocess exits, a call of
\* download_segment_parallel returns with its temp directory removed and
\* batch_download_segments returns; nothing bounds the wait for a chunk
\* subprocess: as long as one is running the job has not left the executor,
\* so a subprocess that never exits keeps the job from concluding.
C24_Termination ==
    /\ \A s \in 1..MaxLiveSegs :
          (s \in Segs /\ job[s].pc = "entry")
            ~> (s \in Segs /\ job[s].pc = "returned" /\ ~fs_dir)
    /\ (bpc = "loop") ~> (bpc = "done" /\ Len(results) = Len(segments))
    /\ [](\A s \in Segs :
            Running(s) # {} =>
                job[s].pc \in {"submit", "collect", "exit_with"})

\* a batch of MaxLiveSegs segments has returned, a chunked job among them
C24_Witness ==
    /\ bpc = "done"
    /\ Len(results) = MaxLiveSegs
    /\ \E s \in Segs : calls[s].fetch > 0 /\ job[s].pc = "returned"

\* every future of the job holds a result: no chunk worker is pending or
\* running
AllWorkersFinished(s) ==
    \A i \in Submitted(s) : job[s].fut[i] \in {"ok", "fail", "raised"}

\* C25: the temp directory is deleted only after every submitted chunk worker
\* has finished and after the merge has returned, also when an exception
\* leaves the collection loop early: the job reaches its finally block with
\* no future pending or running, and once the directory has been made it is
\* missing at no position of the job before the one that follows the removal.
C25_DeleteAfterWorkers ==
    \A s \in Segs :
        /\ job[s].pc \in {"finally", "exit"} =>
              /\ AllWorkersFinished(s)
              /\ job[s].pc = "finally" /\ calls[s].mkdir > 0 => fs_dir
        /\ calls[s].mkdir > 0 /\ ~fs_dir =>
              job[s].pc \in {"exit", "returned", "raised"}
        /\ job[s].pc \in {"merge_open", "merge_run", "merge_finally"} =>
              fs_dir /\ AllWorkersFinished(s)

\* the directory has been removed after an exception left the collection
\* loop, all workers of the job having run to their end before
C25_Witness ==
    \E s \in Segs :
        /\ job[s].pc = "exit"
        /\ job[s].exc
        /\ ~fs_dir
        /\ calls[s].fetch = max_workers
        /\ max_workers >= 2
        /\ job[s].yielded # Submitted(s)

\* C26: within one job the N chunk destination paths are pairwise distinct,
\* every chunk index is at most once in the success list chunk_files, and
\* when the collection loop has ended that list has N entries exactly when
\* the success flag is still true.
C26_DistinctChunks ==
    \A s \in Segs :
        LET chunks == job[s].chunks
            chunk_files == job[s].chunk_files
        IN  /\ \A j, k \in 1..Len(chunks) :
                  j # k => chunks[j][3] # chunks[k][3]
            /\ \A j, k \in 1..Len(chunk_files) :
                  j # k => chunk_files[j][1] # chunk_files[k][1]
            /\ job[s].pc \in {"exit_with", "decide"} /\ ~job[s].exc =>
                  (Len(chunk_files) = max_workers <=> job[s].success)

\* the collection loop of a job of MaxWorkers chunks has ended, one chunk
\* missing from the success list
C26_Witness ==
    \E s \in Segs :
        /\ job[s].pc = "decide"
        /\ Len(job[s].chunks) = MaxWorkers
        /\ Len(job[s].chunk_files) = MaxWorkers - 1
        /\ ~job[s].success

\* the positions of the main thread inside join_videos and after it
AtJoin == {"join_open", "join_run", "join_finally", "join_returned",
           "join_raised"}

\* C27: in the local split-and-join flow the list passed to join_videos holds
\* exactly the temp files of the successfully split segments, in ascending
\* segment index whatever the order of completion, and when the flow has
\* returned no file of that list is left, also after a failed join.
C27_LocalJoinList ==
    /\ bpc \in AtJoin =>
          /\ {join_inputs[j] : j \in 1..Len(join_inputs)}
               = {Output(k) : k \in {n \in DOMAIN split.fut :
                                        split.fut[n] = "ok"}}
          /\ \A j, k \in 1..Len(join_inputs) :
                j < k => join_inputs[j] < join_inputs[k]
          /\ \A j \in 1..Len(join_inputs) : join_inputs[j] \in fs_out
    /\ bpc = "done" =>
          \A j \in 1..Len(results) : results[j] \notin fs_out

\* the flow has returned after a failed join of two segments that were
\* split in the order opposite to their indices; their files are gone
C27_Witness ==
    /\ bpc = "done"
    /\ ~join_ok
    /\ Len(split.results) = 2
    /\ split.results[1][1] > split.results[2][1]
    /\ join_inputs = <<1, 2>>
    /\ fs_out = {}

\* C28: in each of the four flows that resolve a Telegram link the serve
\* process is stopped before the flow returns, on every exit path (resolution
\* failure, no valid segments, download failure, exception): when the flow
\* has been left, stop_serve has run and the handler tracks no process.
C28_ServeStoppedOnExit ==
    flow.pc \in {"returned", "raised"} /\ flow.is_tdl =>
        tdl.process = NoProcess

\* C29: the handler tracks at most one live serve process, start_serve
\* stopping the tracked one before it launches another (a live process that
\* is not tracked is one whose stopping failed); after stop_serve has
\* returned, process and current URL are both cleared; stop_serve with no
\* process is a no-op.
C29_OneServeProcess ==
    /\ tdl.live \ {tdl.process} \subseteq tdl.orphans
    /\ tdl.last = "stop_serve" =>
          tdl.process = NoProcess /\ tdl.current_url = NoUrl
    /\ tdl.process = NoProcess =>
          \A o \in StopOutcomes : StopServeResult(tdl, o) = tdl

\* C30: after any sequence of settings-menu operations download_max_connection
\* equals the downloader's max_workers, and a value entered for Download
\* Connections is applied, to both, only if it is an integer in 1..64;
\* otherwise both stay as they were.
C30_SettingsInSync ==
    /\ download_max_connection = max_workers
    /\ call.op = "connections" =>
          LET val == call.arg
          IN  IF val[1] /\ val[2] /\ val[3] \in 1..64
              THEN download_max_connection = val[3] /\ max_workers = val[3]
              ELSE /\ download_max_connection = call.ret[1]
                   /\ max_workers = call.ret[2]

\* 65 was entered for Download Connections after 64 had been applied
C30_Witness ==
    /\ call.op = "connections"
    /\ call.arg = <<TRUE, TRUE, 65>>
    /\ call.ret = <<64, 64>>
    /\ download_max_connection = 64
    /\ max_workers = 64

====
